---- MODULE Spec2Model ----
(***************************************************************************)
(* worktimer (main.py): the work-hours journal.  The state is what the     *)
(* program keeps between commands: the timesheet files and the projects    *)
(* file under cfg.datafile_dir, the configuration object cfg, the clock,   *)
(* and what the last command wrote to the terminal or raised.  Every       *)
(* command loads the whole timesheet file, changes it in memory and        *)
(* writes the whole file back; each action below is one whole command.     *)
(* procs holds the invocations of the program that run at the same time,   *)
(* each with the copy of the timesheet it has loaded; it is empty where    *)
(* the commands run one at a time.                                         *)
(***************************************************************************)
EXTENDS Integers, Sequences, FiniteSets, TLC

VARIABLES files, projects, cfg, today, out, procs

vars == <<files, projects, cfg, today, out, procs>>

(***************************************************************************)
(* Bounds of the model and the inputs the commands are tried with.         *)
(***************************************************************************)
\* most work blocks a day is grown to
MaxBlocks == 2

\* times of day, in minutes after midnight, given to start/stop/switch
Times == {480, 990}

\* comments given to stop and to comment (None: no comment given)
Comments == {<<>>, <<"a">>}

\* minutes given to lunch
LunchMins == {20, 30}

\* minutes given to set_time_off: the ends of the accepted range of an
\* 8 hour day and the first values outside it
TimeOffs == {-1, 0, 480, 481}

\* dates (proleptic ordinals, as date.toordinal()) the program is run on:
\* a Friday
Dates == {5}

\* timesheet files of the data directory, each <<year, month>> of its name
\* "{year}-{month}-timesheet.json"
Keys == {<<1, 1>>}

(***************************************************************************)
(* Optional[...] values: None, or a one-element tuple holding the value.   *)
(***************************************************************************)
None == <<>>

Some(x) == <<x>>

Val(o) == o[1]

(***************************************************************************)
(* Program constants.                                                      *)
(***************************************************************************)
DEFAULT_LUNCH_DURATION == 30

DEFAULT_WORK_HOURS == 8

DEFAULT_TARGET_HOURS == 167

\* date.isoweekday(): 1 = Monday .. 7 = Sunday (ordinal 1 is a Monday)
isoweekday(d) == ((d - 1) % 7) + 1

\* The calendar is the proleptic Gregorian one of the first years, none of
\* them a leap year: ordinal 1 is 0001-01-01.
\* date.timetuple().tm_yday of the first day of each month
MonthStart == <<1, 32, 60, 91, 121, 152, 182, 213, 244, 274, 305, 335>>

day_of_year(d) == ((d - 1) % 365) + 1

\* date.month
month_of(d) ==
    CHOOSE m \in 1..12 :
        /\ MonthStart[m] <= day_of_year(d)
        /\ (m = 12 \/ day_of_year(d) < MonthStart[m + 1])

(***************************************************************************)
(* time_diff and WorkBlock.                                                *)
(***************************************************************************)
time_diff(t1, t2) ==
    IF t1 = None \/ t2 = None
    THEN 0
    ELSE ((Val(t1) - Val(t2)) * 60) \div 60

WorkBlock(start_, project_id_) ==
    [start |-> start_, stop |-> None, comment |-> None,
     project_id |-> project_id_, lunch |-> 0]

started(wb) == wb.start # None

stopped(wb) == wb.stop # None

is_ongoing(wb) == started(wb) /\ ~stopped(wb)

\* worked_time that takes the lunch off a block that is not stopped
Mut_WorkBlock_worked_time(wb) ==
    IF ~started(wb) \/ ~stopped(wb)
    THEN 0 - wb.lunch
    ELSE time_diff(wb.stop, wb.start) - wb.lunch

WorkBlock_worked_time(wb) ==
    IF ~started(wb) \/ ~stopped(wb)
    THEN 0
    ELSE time_diff(wb.stop, wb.start) - wb.lunch

(***************************************************************************)
(* Day.                                                                    *)
(***************************************************************************)
Day(this_date_) ==
    [this_date |-> this_date_, flex_minutes |-> 0, work_blocks |-> <<>>,
     time_off_minutes |-> 0]

\* The Day after the property last_work_block was read: reading it appends
\* an empty WorkBlock when the day has none.
last_work_block(day) ==
    IF Len(day.work_blocks) = 0
    THEN [day EXCEPT !.work_blocks = Append(@, WorkBlock(None, None))]
    ELSE day

\* the block the property returns, of a day that has one
Last(day) == day.work_blocks[Len(day.work_blocks)]

RECURSIVE SumSeq(_)
SumSeq(s) == IF s = <<>> THEN 0 ELSE s[1] + SumSeq(Tail(s))

blocks_worked_time(work_blocks) ==
    SumSeq([i \in 1..Len(work_blocks) |-> WorkBlock_worked_time(work_blocks[i])])

\* a lunch of the day that reads the last block only
Mut_blocks_lunch(work_blocks) ==
    IF Len(work_blocks) = 0 THEN 0 ELSE work_blocks[Len(work_blocks)].lunch

blocks_lunch(work_blocks) ==
    SumSeq([i \in 1..Len(work_blocks) |-> work_blocks[i].lunch])

Day_worked_time(day) == blocks_worked_time(day.work_blocks)

Day_lunch(day) == blocks_lunch(day.work_blocks)

\* recalc_flex without the case of a single block that is not stopped
Mut_recalc_flex(day, workhours_one_day) ==
    LET weekend == isoweekday(day.this_date) \in {6, 7}
        expected_worktime_in_mins == IF weekend THEN 0 ELSE workhours_one_day * 60
        time_off_minutes == IF weekend THEN 0 ELSE day.time_off_minutes
    IN  [day EXCEPT !.flex_minutes =
             Day_worked_time(day) - expected_worktime_in_mins + time_off_minutes]

\* recalc_flex that leaves the time off out of the flex
Mut_recalc_flex_no_time_off(day, workhours_one_day) ==
    LET weekend == isoweekday(day.this_date) \in {6, 7}
        expected_worktime_in_mins == IF weekend THEN 0 ELSE workhours_one_day * 60
    IN  IF Len(day.work_blocks) = 1 /\ ~stopped(Last(day))
        THEN [day EXCEPT !.flex_minutes = 0]
        ELSE [day EXCEPT !.flex_minutes =
                  Day_worked_time(day) - expected_worktime_in_mins]

\* recalc_flex that takes only Sunday for the weekend
Mut_recalc_flex_sunday_only(day, workhours_one_day) ==
    LET weekend == isoweekday(day.this_date) \in {7}
        expected_worktime_in_mins == IF weekend THEN 0 ELSE workhours_one_day * 60
        time_off_minutes == IF weekend THEN 0 ELSE day.time_off_minutes
    IN  IF Len(day.work_blocks) = 1 /\ ~stopped(Last(day))
        THEN [day EXCEPT !.flex_minutes = 0]
        ELSE [day EXCEPT !.flex_minutes =
                  Day_worked_time(day) - expected_worktime_in_mins + time_off_minutes]

\* recalc_flex that adds to the flex the Day holds
Mut_recalc_flex_incremental(day, workhours_one_day) ==
    LET weekend == isoweekday(day.this_date) \in {6, 7}
        expected_worktime_in_mins == IF weekend THEN 0 ELSE workhours_one_day * 60
        time_off_minutes == IF weekend THEN 0 ELSE day.time_off_minutes
    IN  IF Len(day.work_blocks) = 1 /\ ~stopped(Last(day))
        THEN [day EXCEPT !.flex_minutes = 0]
        ELSE [day EXCEPT !.flex_minutes =
                  @ + Day_worked_time(day) - expected_worktime_in_mins + time_off_minutes]

recalc_flex(day, workhours_one_day) ==
    LET weekend == isoweekday(day.this_date) \in {6, 7}
        expected_worktime_in_mins == IF weekend THEN 0 ELSE workhours_one_day * 60
        time_off_minutes == IF weekend THEN 0 ELSE day.time_off_minutes
    IN  IF Len(day.work_blocks) = 1 /\ ~stopped(Last(day))
        THEN [day EXCEPT !.flex_minutes = 0]
        ELSE [day EXCEPT !.flex_minutes =
                  Day_worked_time(day) - expected_worktime_in_mins + time_off_minutes]

(***************************************************************************)
(* Timesheet.                                                              *)
(***************************************************************************)
Timesheet == [days |-> <<>>, target_hours |-> DEFAULT_TARGET_HOURS]

\* get_day that stores a new empty Day under the key on every call
Mut_get_day(ts, key) ==
    [ts EXCEPT !.days = [k \in (DOMAIN ts.days) \cup {key} |->
                            IF k = key THEN Day(key) ELSE ts.days[k]]]

\* The Timesheet after get_day(key) was called: the key is added with an
\* empty Day when it is absent.
get_day(ts, key) ==
    IF key \in DOMAIN ts.days
    THEN ts
    ELSE [ts EXCEPT !.days = [k \in (DOMAIN ts.days) \cup {key} |->
                                 IF k = key THEN Day(key) ELSE ts.days[k]]]

\* a today that hands out a Timesheet holding no Day but today's
Mut_Timesheet_today(ts, now) ==
    [ts EXCEPT !.days = (now :> get_day(ts, now).days[now])]

\* The Timesheet after the property today was read on date now.
Timesheet_today(ts, now) == get_day(ts, now)

\* monthly_flex that counts only the Days of the month of today
Mut_monthly_flex(ts) ==
    LET RECURSIVE Sum(_)
        Sum(S) == IF S = {} THEN 0
                  ELSE LET k == CHOOSE x \in S : TRUE
                       IN  ts.days[k].flex_minutes + Sum(S \ {k})
    IN  Sum({d \in DOMAIN ts.days : month_of(d) = month_of(today)})

monthly_flex(ts) ==
    LET RECURSIVE Sum(_)
        Sum(S) == IF S = {} THEN 0
                  ELSE LET k == CHOOSE x \in S : TRUE
                       IN  ts.days[k].flex_minutes + Sum(S \ {k})
    IN  Sum(DOMAIN ts.days)

(***************************************************************************)
(* The timesheet file: model_dump_json writes each time of day as its      *)
(* hours and minutes ("hh:mm:00") and model_validate_json reads them back. *)
(***************************************************************************)
\* a dump that writes the hour of a time of day and drops its minutes
Mut_dump_time(o) == IF o = None THEN None ELSE Some(<<Val(o) \div 60, 0>>)

dump_time(o) == IF o = None THEN None ELSE Some(<<Val(o) \div 60, Val(o) % 60>>)

parse_time(o) == IF o = None THEN None ELSE Some(Val(o)[1] * 60 + Val(o)[2])

dump_block(wb) == [wb EXCEPT !.start = dump_time(@), !.stop = dump_time(@)]

parse_block(wb) == [wb EXCEPT !.start = parse_time(@), !.stop = parse_time(@)]

dump_day(day) ==
    [day EXCEPT !.work_blocks = [i \in 1..Len(@) |-> dump_block(@[i])]]

parse_day(day) ==
    [day EXCEPT !.work_blocks = [i \in 1..Len(@) |-> parse_block(@[i])]]

model_dump_json(ts) ==
    [ts EXCEPT !.days = [k \in DOMAIN @ |-> dump_day(@[k])]]

model_validate_json(json) ==
    [json EXCEPT !.days = [k \in DOMAIN @ |-> parse_day(@[k])]]

\* a file that does not exist
NoFile == <<>>

save_timesheet(fs, ts, datafile) ==
    [fs EXCEPT ![datafile] = Some(model_dump_json(ts))]

\* load_timesheet(datafile): the files afterwards, the Timesheet returned and
\* whether open() raised FileNotFoundError.  A missing file makes it save an
\* empty Timesheet, which save_timesheet writes to cfg.datafile.
load_timesheet(fs, datafile) ==
    LET fs1 == IF fs[datafile] = NoFile
               THEN save_timesheet(fs, Timesheet, cfg.datafile)
               ELSE fs
    IN  IF fs1[datafile] = NoFile
        THEN [files |-> fs1, ts |-> Timesheet, raised |-> TRUE]
        ELSE [files |-> fs1, ts |-> model_validate_json(Val(fs1[datafile])),
              raised |-> FALSE]

(***************************************************************************)
(* Projects and the project prompt.                                        *)
(***************************************************************************)
\* The ids prompt_for_project can return: 0 is returned as None, empty input
\* returns the default when there is one, and any id of the projects list
\* is accepted.
prompt_for_project(projs, default_project_id) ==
    {None} \cup {default_project_id}
           \cup {Some(projs[i].id) : i \in 1..Len(projs)}

\* project_id = prompt_for_project(default) if len(projects) else None
project_choice(projs, default_project_id) ==
    IF Len(projs) > 0 THEN prompt_for_project(projs, default_project_id) ELSE {None}

(***************************************************************************)
(* What a command wrote and raised.                                        *)
(***************************************************************************)
Out(op_, printed_, raised_) == [op |-> op_, printed |-> printed_, raised |-> raised_]

\* _print_estimated_endtime_for_today that leaves the time off out
Mut_print_estimated_endtime_for_today(work_blocks, lunch_, timeoff) ==
    LET mins_left_to_work ==
            (cfg.workhours_one_day * 60) - blocks_worked_time(work_blocks)
        last == work_blocks[Len(work_blocks)]
        actual_lunch == blocks_lunch(work_blocks)
        estimated_lunch_left_today == IF actual_lunch # 0 THEN 0 ELSE lunch_
        work_end_with_lunch ==
            (Val(last.start) + mins_left_to_work + estimated_lunch_left_today) % 1440
        todays_lunch == IF actual_lunch # 0 THEN actual_lunch ELSE lunch_
    IN  IF last.start = None
        THEN <<>>
        ELSE << <<"Estimated end time for today", todays_lunch, work_end_with_lunch>> >>

\* _print_estimated_endtime_for_today: the lines it prints
print_estimated_endtime_for_today(work_blocks, lunch_, timeoff) ==
    LET mins_left_to_work ==
            (cfg.workhours_one_day * 60) - timeoff - blocks_worked_time(work_blocks)
        last == work_blocks[Len(work_blocks)]
        actual_lunch == blocks_lunch(work_blocks)
        estimated_lunch_left_today == IF actual_lunch # 0 THEN 0 ELSE lunch_
        work_end_with_lunch ==
            (Val(last.start) + mins_left_to_work + estimated_lunch_left_today) % 1440
        todays_lunch == IF actual_lunch # 0 THEN actual_lunch ELSE lunch_
    IN  IF last.start = None
        THEN <<>>
        ELSE << <<"Estimated end time for today", todays_lunch, work_end_with_lunch>> >>

(***************************************************************************)
(* The conditions the commands test before they change anything.           *)
(***************************************************************************)
\* the timesheet in memory is saved when a prompt is interrupted
Mut_prompt_interrupted(fs, ts) == save_timesheet(fs, ts, cfg.datafile)

\* input() raises (EOFError, KeyboardInterrupt) inside prompt_for_project:
\* the exception leaves the command before its save_timesheet, so the
\* timesheet in memory, ts, is dropped and the files stay as they are
prompt_interrupted(fs, ts) == fs

\* start tests stopped() where it should test not stopped()
Mut_start_already_started(last_wb) == started(last_wb) /\ stopped(last_wb)

\* start: last_wb.started() and not last_wb.stopped()
start_already_started(last_wb) == started(last_wb) /\ ~stopped(last_wb)

\* start appends a block whatever the last block is
Mut_start_blocks(work_blocks, start_time, project_id) ==
    Append(work_blocks, WorkBlock(Some(start_time), project_id))

\* start: a new block is appended when the last block is stopped, otherwise
\* the last block gets the start and the project
start_blocks(work_blocks, start_time, project_id) ==
    IF stopped(work_blocks[Len(work_blocks)])
    THEN Append(work_blocks, WorkBlock(Some(start_time), project_id))
    ELSE [work_blocks EXCEPT ![Len(work_blocks)].start = Some(start_time),
                             ![Len(work_blocks)].project_id = project_id]

\* stop keeps the comment of the block when it is given none
Mut_stop_block(wb, stop_time, comment, project_id) ==
    [wb EXCEPT !.stop = Some(stop_time),
               !.comment = IF comment = None THEN @ ELSE comment,
               !.project_id = project_id]

\* stop: the stop, the comment and the project the last block is given
stop_block(wb, stop_time, comment, project_id) ==
    [wb EXCEPT !.stop = Some(stop_time),
               !.comment = comment,
               !.project_id = project_id]

\* stop without its test that the block is started
Mut_stop_not_started(last_wb) == FALSE

\* stop: not ts.today.last_work_block.started()
stop_not_started(last_wb) == ~started(last_wb)

\* stop without its test that the block is already stopped
Mut_stop_already_stopped(last_wb) == FALSE

\* stop: ts.today.last_work_block.stopped()
stop_already_stopped(last_wb) == stopped(last_wb)

\* switch: not ts.today.last_work_block.started()
switch_not_started(last_wb) == ~started(last_wb)

\* switch without its test that the block is already stopped
Mut_switch_already_stopped(last_wb) == FALSE

\* switch: ts.today.last_work_block.stopped()
switch_already_stopped(last_wb) == stopped(last_wb)

\* switch refuses the start time of the block itself as well
Mut_switch_before_start(switch_time, current_start) == switch_time <= Val(current_start)

\* switch: switch_time.time() < current_start
switch_before_start(switch_time, current_start) == switch_time < Val(current_start)

\* switch appends the new block and leaves the current one running
Mut_switch_blocks(work_blocks, switch_time, new_project_id) ==
    Append(work_blocks, WorkBlock(Some(switch_time), new_project_id))

\* switch: the current block is stopped and a new one, started at the same
\* time, is appended
switch_blocks(work_blocks, switch_time, new_project_id) ==
    Append([work_blocks EXCEPT ![Len(work_blocks)].stop = Some(switch_time)],
           WorkBlock(Some(switch_time), new_project_id))

\* lunch tests only that the day has a work block
Mut_lunch_not_started(work_blocks) == Len(work_blocks) = 0

\* lunch: len(ts.today.work_blocks) == 0 or not ts.today.last_work_block.started()
lunch_not_started(work_blocks) ==
    Len(work_blocks) = 0 \/ ~started(work_blocks[Len(work_blocks)])

\* lunch without its test that a lunch is already set
Mut_lunch_already_set(day) == FALSE

\* lunch: ts.today.lunch != 0
lunch_already_set(day) == Day_lunch(day) # 0

\* set_time_off refuses a whole workday of time off
Mut_time_off_invalid(time_off_mins) ==
    time_off_mins < 0 \/ time_off_mins >= cfg.workhours_one_day * 60

\* set_time_off: time_off_mins < 0 or time_off_mins > cfg.workhours_one_day * 60
time_off_invalid(time_off_mins) ==
    time_off_mins < 0 \/ time_off_mins > cfg.workhours_one_day * 60

(***************************************************************************)
(* The commands.                                                           *)
(***************************************************************************)
start(start_time) ==
    LET l == load_timesheet(files, cfg.datafile)
        ts0 == Timesheet_today(l.ts, today)
        day0 == last_work_block(ts0.days[today])
        last_wb == Last(day0)
    IN  IF start_already_started(last_wb)
        THEN /\ files' = l.files
             /\ out' = Out("start", << <<"Workblock already started, stop it before starting another one">> >>, None)
             /\ UNCHANGED <<projects, cfg, today, procs>>
        ELSE \/ /\ Len(projects) > 0
                /\ files' = prompt_interrupted(l.files, [ts0 EXCEPT !.days[today] = day0])
                /\ out' = Out("start", <<>>, Some(<<"KeyboardInterrupt", "project">>))
                /\ UNCHANGED <<projects, cfg, today, procs>>
             \/ \E project_id \in project_choice(projects, None) :
                LET day1 == [day0 EXCEPT !.work_blocks =
                                start_blocks(@, start_time, project_id)]
                    ts1 == [ts0 EXCEPT !.days[today] = day1]
                IN  /\ files' = save_timesheet(l.files, ts1, cfg.datafile)
                    /\ out' = Out("start",
                                  << <<"Starting at", start_time>> >> \o
                                  (IF Day_lunch(day1) > 0
                                   THEN print_estimated_endtime_for_today(
                                            day1.work_blocks, Day_lunch(day1), day1.time_off_minutes)
                                   ELSE print_estimated_endtime_for_today(
                                            day1.work_blocks, DEFAULT_LUNCH_DURATION, day1.time_off_minutes)),
                                  None)
                    /\ UNCHANGED <<projects, cfg, today, procs>>

stop(stop_time, comment) ==
    LET l == load_timesheet(files, cfg.datafile)
        ts0 == Timesheet_today(l.ts, today)
        day0 == last_work_block(ts0.days[today])
        n == Len(day0.work_blocks)
    IN  IF stop_not_started(Last(day0))
        THEN /\ files' = l.files
             /\ out' = Out("stop", << <<"Could not stop workblock, is your last workblock started?">> >>, None)
             /\ UNCHANGED <<projects, cfg, today, procs>>
        ELSE IF stop_already_stopped(Last(day0))
        THEN /\ files' = l.files
             /\ out' = Out("stop", <<>>, None)
             /\ UNCHANGED <<projects, cfg, today, procs>>
        ELSE \/ /\ Len(projects) > 0
                /\ files' = prompt_interrupted(l.files, [ts0 EXCEPT !.days[today] = day0])
                /\ out' = Out("stop", << <<"Stopping at", stop_time>> >>,
                              Some(<<"KeyboardInterrupt", "project">>))
                /\ UNCHANGED <<projects, cfg, today, procs>>
             \/ \E project_id \in project_choice(projects, Last(day0).project_id) :
                LET day1 == recalc_flex(
                                [day0 EXCEPT !.work_blocks[n] =
                                    stop_block(@, stop_time, comment, project_id)],
                                cfg.workhours_one_day)
                    ts1 == [ts0 EXCEPT !.days[today] = day1]
                    abs_flex == IF day1.flex_minutes >= 0 THEN day1.flex_minutes
                                ELSE 0 - day1.flex_minutes
                IN  /\ files' = save_timesheet(l.files, ts1, cfg.datafile)
                    /\ out' = Out("stop",
                                  << <<"Stopping at", stop_time>>,
                                     <<IF day1.flex_minutes >= 0 THEN "Flex for today"
                                       ELSE "Flex for today is negative",
                                       abs_flex \div 60, abs_flex % 60>> >>,
                                  None)
                    /\ UNCHANGED <<projects, cfg, today, procs>>

switch(switch_time) ==
    LET l == load_timesheet(files, cfg.datafile)
        ts0 == Timesheet_today(l.ts, today)
        day0 == last_work_block(ts0.days[today])
        n == Len(day0.work_blocks)
        current_start == Last(day0).start
    IN  IF switch_not_started(Last(day0))
        THEN /\ files' = l.files
             /\ out' = Out("switch", <<>>, Some(<<"ValueError", "No active work block to switch from">>))
             /\ UNCHANGED <<projects, cfg, today, procs>>
        ELSE IF switch_already_stopped(Last(day0))
        THEN /\ files' = l.files
             /\ out' = Out("switch", <<>>, None)
             /\ UNCHANGED <<projects, cfg, today, procs>>
        ELSE IF switch_before_start(switch_time, current_start)
        THEN /\ files' = l.files
             /\ out' = Out("switch", <<>>,
                           Some(<<"ValueError", "Switch time cannot be before workblock start time",
                                  switch_time, Val(current_start)>>))
             /\ UNCHANGED <<projects, cfg, today, procs>>
        ELSE \/ /\ Len(projects) > 0
                /\ files' = prompt_interrupted(l.files, [ts0 EXCEPT !.days[today] = day0])
                /\ out' = Out("switch", << <<"Switching at", switch_time>> >>,
                              Some(<<"KeyboardInterrupt", "current project">>))
                /\ UNCHANGED <<projects, cfg, today, procs>>
             \/ /\ Len(projects) > 0
                /\ \E current_project_id \in project_choice(projects, Last(day0).project_id) :
                      files' = prompt_interrupted(
                                   l.files,
                                   [ts0 EXCEPT !.days[today] =
                                       [day0 EXCEPT !.work_blocks[n].project_id =
                                                        current_project_id]])
                /\ out' = Out("switch", << <<"Switching at", switch_time>> >>,
                              Some(<<"KeyboardInterrupt", "new project">>))
                /\ UNCHANGED <<projects, cfg, today, procs>>
             \/ \E current_project_id \in project_choice(projects, Last(day0).project_id),
                new_project_id \in project_choice(projects, None) :
                LET day1 == IF Len(projects) > 0
                            THEN [day0 EXCEPT !.work_blocks[n].project_id = current_project_id]
                            ELSE day0
                    day3 == [day1 EXCEPT !.work_blocks =
                                switch_blocks(@, switch_time, new_project_id)]
                    day4 == recalc_flex(day3, cfg.workhours_one_day)
                    ts1 == [ts0 EXCEPT !.days[today] = day4]
                IN  /\ files' = save_timesheet(l.files, ts1, cfg.datafile)
                    /\ out' = Out("switch",
                                  << <<"Switching at", switch_time>> >> \o
                                  (IF Len(projects) > 0 /\ new_project_id # None
                                   THEN << <<"Switching to project", Val(new_project_id)>> >>
                                   ELSE <<>>),
                                  None)
                    /\ UNCHANGED <<projects, cfg, today, procs>>

lunch(lunch_mins) ==
    LET l == load_timesheet(files, cfg.datafile)
        ts0 == Timesheet_today(l.ts, today)
        day0 == ts0.days[today]
        n == Len(day0.work_blocks)
    IN  IF lunch_not_started(day0.work_blocks)
        THEN /\ files' = l.files
             /\ out' = Out("lunch", << <<"Could not find today in timesheet, did you start the day?">> >>, None)
             /\ UNCHANGED <<projects, cfg, today, procs>>
        ELSE IF lunch_already_set(day0)
        THEN /\ files' = l.files
             /\ out' = Out("lunch", <<>>, None)
             /\ UNCHANGED <<projects, cfg, today, procs>>
        ELSE LET day1 == recalc_flex([day0 EXCEPT !.work_blocks[n].lunch = lunch_mins],
                                     cfg.workhours_one_day)
                 ts1 == [ts0 EXCEPT !.days[today] = day1]
             IN  /\ files' = save_timesheet(l.files, ts1, cfg.datafile)
                 /\ out' = Out("lunch",
                               print_estimated_endtime_for_today(day0.work_blocks, lunch_mins, 0)
                               \o << <<"Added mins as lunch", lunch_mins>> >>,
                               None)
                 /\ UNCHANGED <<projects, cfg, today, procs>>

set_time_off(time_off_mins) ==
    IF time_off_invalid(time_off_mins)
    THEN /\ out' = Out("timeoff", <<>>,
                       Some(<<"ValueError", "Invalid timeoff value, must be an int between 0 and 8 inclusive.">>))
         /\ UNCHANGED <<files, projects, cfg, today, procs>>
    ELSE LET l == load_timesheet(files, cfg.datafile)
             ts0 == Timesheet_today(l.ts, today)
             day1 == recalc_flex([ts0.days[today] EXCEPT !.time_off_minutes = time_off_mins],
                                 cfg.workhours_one_day)
             ts1 == [ts0 EXCEPT !.days[today] = day1]
         IN  /\ files' = save_timesheet(l.files, ts1, cfg.datafile)
             /\ out' = Out("timeoff", << <<"Setting timeoff to", time_off_mins>> >>, None)
             /\ UNCHANGED <<projects, cfg, today, procs>>

set_target_hours(target_hours) ==
    IF target_hours < 0
    THEN /\ out' = Out("target_hours", <<>>,
                       Some(<<"ValueError", "Invalid target_hours value, must be an int greater than 0.">>))
         /\ UNCHANGED <<files, projects, cfg, today, procs>>
    ELSE LET l == load_timesheet(files, cfg.datafile)
             ts1 == [l.ts EXCEPT !.target_hours = target_hours]
         IN  /\ files' = save_timesheet(l.files, ts1, cfg.datafile)
             /\ out' = Out("target_hours", << <<"Setting target hours to", target_hours>> >>, None)
             /\ UNCHANGED <<projects, cfg, today, procs>>

set_comment(text) ==
    LET l == load_timesheet(files, cfg.datafile)
        ts0 == Timesheet_today(l.ts, today)
        day0 == last_work_block(ts0.days[today])
        n == Len(day0.work_blocks)
        legal == started(Last(day0)) /\ ~stopped(Last(day0))
        day1 == IF legal THEN [day0 EXCEPT !.work_blocks[n].comment = text] ELSE day0
        ts1 == [ts0 EXCEPT !.days[today] = day1]
    IN  /\ files' = save_timesheet(l.files, ts1, cfg.datafile)
        /\ out' = Out("comment",
                      IF legal THEN <<>>
                      ELSE << <<"Cannot set comment for workblock not started">> >>,
                      None)
        /\ UNCHANGED <<projects, cfg, today, procs>>

\* the year of a date and of a timesheet file ("{year}-{month}-timesheet.json")
year_of(d) == ((d - 1) \div 365) + 1

key_year(k) == k[1]

recalc_timesheet(ts) ==
    [ts EXCEPT !.days = [k \in DOMAIN @ |-> recalc_flex(@[k], cfg.workhours_one_day)]]

\* a glob that takes the timesheet files of every year
Mut_glob_timesheets(fs, curr_year) == {k \in DOMAIN fs : fs[k] # NoFile}

\* cfg.datafile_dir.glob(f"{curr_year}-*-timesheet.json"): the timesheet
\* files that exist and whose name begins with the year
glob_timesheets(fs, curr_year) ==
    {k \in DOMAIN fs : fs[k] # NoFile /\ key_year(k) = curr_year}

\* recalc(RecalcAction.FLEX): every file of the current year is loaded,
\* recalculated and saved under its own name.
recalc ==
    /\ files' = [k \in DOMAIN files |->
                    IF k \in glob_timesheets(files, year_of(today))
                    THEN Some(model_dump_json(recalc_timesheet(model_validate_json(Val(files[k])))))
                    ELSE files[k]]
    /\ out' = Out("recalc", <<>>, None)
    /\ UNCHANGED <<projects, cfg, today, procs>>

(***************************************************************************)
(* The journal: the commands of one day, from a data directory that holds  *)
(* no timesheet file yet and no project.                                   *)
(***************************************************************************)
\* The Timesheet load_timesheet() returns for cfg.datafile: the persisted
\* timesheet, an empty one when the file does not exist.
PersistedTs == load_timesheet(files, cfg.datafile).ts

\* today's Day as persisted, an empty Day when the timesheet has none
PersistedToday == Timesheet_today(PersistedTs, today).days[today]

PersistedBlocks == PersistedToday.work_blocks

\* the model grows a day to MaxBlocks work blocks at most
Bounded == Len(PersistedBlocks) <= MaxBlocks

Init ==
    /\ files = [k \in Keys |-> NoFile]
    /\ projects = <<>>
    /\ cfg = [workhours_one_day |-> DEFAULT_WORK_HOURS, datafile |-> <<1, 1>>]
    /\ today \in Dates
    /\ out = Out("", <<>>, None)
    /\ procs = <<>>

Next ==
    \/ \E t \in Times : start(t) /\ Bounded'
    \/ \E t \in Times, c \in Comments : stop(t, c)
    \/ \E t \in Times : switch(t) /\ Bounded'
    \/ \E m \in LunchMins : lunch(m)
    \/ \E m \in TimeOffs : set_time_off(m)
    \/ \E c \in Comments : set_comment(c)
    \/ recalc

Spec == Init /\ [][Next]_vars

(***************************************************************************)
(* A day of starts, stops and switches only, grown to more work blocks, so *)
(* that switches follow one another.                                       *)
(***************************************************************************)
\* most work blocks such a day is grown to
MaxChain == 3

BoundedChain == Len(PersistedBlocks) <= MaxChain

NextChain ==
    \/ \E t \in Times : start(t) /\ BoundedChain'
    \/ \E t \in Times, c \in Comments : stop(t, c)
    \/ \E t \in Times : switch(t) /\ BoundedChain'

SpecChain == Init /\ [][NextChain]_vars

(***************************************************************************)
(* The state of today's last work block, as persisted.                     *)
(***************************************************************************)
\* EMPTY: today has no work block, or its last block has no start
LastNotStarted ==
    Len(PersistedBlocks) = 0 \/ ~started(PersistedBlocks[Len(PersistedBlocks)])

\* STARTED: the last block is started and not stopped
LastOngoing ==
    Len(PersistedBlocks) > 0 /\ is_ongoing(PersistedBlocks[Len(PersistedBlocks)])

\* STOPPED: the last block is stopped
LastStopped ==
    Len(PersistedBlocks) > 0 /\ stopped(PersistedBlocks[Len(PersistedBlocks)])

MsgAlreadyStarted == <<"Workblock already started, stop it before starting another one">>

MsgCouldNotStop == <<"Could not stop workblock, is your last workblock started?">>

(***************************************************************************)
(* C1: start is rejected when today's last work block is started and not   *)
(* stopped: the message is printed, no work block is added or changed and  *)
(* the timesheet file after the call is the file before it.                *)
(***************************************************************************)
C1_StartRejectedWhileStarted ==
    [][\A t \in Times :
          (LastOngoing /\ start(t)) =>
              /\ out' = Out("start", <<MsgAlreadyStarted>>, None)
              /\ PersistedBlocks' = PersistedBlocks
              /\ Len(PersistedBlocks') = Len(PersistedBlocks)
              /\ files' = files]_vars

\* a start was rejected on a day whose last block is still running
C1_Witness ==
    /\ LastOngoing
    /\ out = Out("start", <<MsgAlreadyStarted>>, None)

(***************************************************************************)
(* C2: stop is rejected when today's last work block has not been started: *)
(* the message is printed, no block gets a stop time and the persisted     *)
(* timesheet is unchanged (a timesheet file that exists is left as it is;  *)
(* a missing one is created empty by load_timesheet).                      *)
(***************************************************************************)
C2_StopRejectedWhenNotStarted ==
    [][\A t \in Times, c \in Comments :
          (LastNotStarted /\ stop(t, c)) =>
              /\ out' = Out("stop", <<MsgCouldNotStop>>, None)
              /\ PersistedTs' = PersistedTs
              /\ (files[cfg.datafile] # NoFile => files' = files)
              /\ \A i \in 1..Len(PersistedBlocks') : ~stopped(PersistedBlocks'[i])]_vars

\* a stop was rejected on a day that was not started
C2_Witness ==
    /\ LastNotStarted
    /\ out = Out("stop", <<MsgCouldNotStop>>, None)

(***************************************************************************)
(* C3: stop is idempotent: when today's last work block is already         *)
(* stopped, a stop with any time and any comment prints nothing, raises    *)
(* nothing and leaves the timesheet file as it is, so the stop time, the   *)
(* comment, the project and the flex are those of the first stop.          *)
(***************************************************************************)
C3_StopTwiceIsNoOp ==
    [][\A t \in Times, c \in Comments :
          (LastStopped /\ stop(t, c)) =>
              /\ out' = Out("stop", <<>>, None)
              /\ files' = files]_vars

\* a stop was given on a day whose last block was already stopped
C3_Witness ==
    /\ LastStopped
    /\ out = Out("stop", <<>>, None)

(***************************************************************************)
(* C4: switch fails with an explicit error, and changes nothing, whenever  *)
(* today's last work block is not started-and-running: both when it was    *)
(* never started and when it is stopped.                                   *)
(***************************************************************************)
C4_SwitchFailsUnlessStarted ==
    [][\A t \in Times :
          (~LastOngoing /\ switch(t)) =>
              /\ out'.raised # None
              /\ PersistedTs' = PersistedTs]_vars

\* what switch does on a day whose last block is stopped: it returns without
\* an error and without a message
C4_SwitchSilentWhenStopped ==
    /\ LastStopped
    /\ out = Out("switch", <<>>, None)

(***************************************************************************)
(* C5: on a running block, switch with a time of day strictly before the   *)
(* block's start raises an error that names both times and leaves the day  *)
(* as it was (no block added, the start unchanged, the stop still unset);  *)
(* a time equal to or after the start is accepted and a block is added.    *)
(***************************************************************************)
C5_SwitchTimeNotBeforeStart ==
    [][\A t \in Times :
          (LastOngoing /\ switch(t)) =>
              LET n == Len(PersistedBlocks)
                  current_start == Val(PersistedBlocks[n].start)
              IN  IF t < current_start
                  THEN /\ out' = Out("switch", <<>>,
                                     Some(<<"ValueError",
                                            "Switch time cannot be before workblock start time",
                                            t, current_start>>))
                       /\ Len(PersistedBlocks') = n
                       /\ PersistedBlocks'[n].start = PersistedBlocks[n].start
                       /\ PersistedBlocks'[n].stop = None
                       /\ files' = files
                  ELSE /\ out'.raised = None
                       /\ out'.printed = << <<"Switching at", t>> >>
                       /\ Len(PersistedBlocks') = n + 1]_vars

\* a switch was refused for a time before the start of the running block
C5_Witness ==
    /\ LastOngoing
    /\ out.op = "switch"
    /\ out.raised # None
    /\ Val(out.raised)[2] = "Switch time cannot be before workblock start time"
    /\ Val(out.raised)[3] < Val(PersistedBlocks[Len(PersistedBlocks)].start)

(***************************************************************************)
(* C6: a successful switch at time t on a day of n work blocks sets the    *)
(* stop of the running block to t and appends exactly one block that       *)
(* starts at t and has no stop: the day has n+1 blocks, the earlier blocks *)
(* are untouched, the closed block's stop is the new block's start and the *)
(* new block is the running one.  Holding at every step, it holds along    *)
(* every chain of switches.                                                *)
(***************************************************************************)
C6_SwitchClosesAndAppends ==
    [][\A t \in Times :
          (LastOngoing /\ switch(t) /\ out'.raised = None) =>
              LET n == Len(PersistedBlocks)
                  old == PersistedBlocks
                  new == PersistedBlocks'
              IN  /\ Len(new) = n + 1
                  /\ \A i \in 1..(n - 1) : new[i] = old[i]
                  /\ new[n] = [old[n] EXCEPT !.stop = Some(t)]
                  /\ new[n + 1].start = Some(t)
                  /\ new[n + 1].stop = None
                  /\ new[n].stop = new[n + 1].start
                  /\ \A i \in 1..n : ~is_ongoing(new[i])
                  /\ is_ongoing(new[n + 1])
                  /\ LastOngoing']_vars

\* a day of three blocks after a switch, each block stopped when the next
\* one starts, the second switch later than the first
C6_Witness ==
    /\ out.op = "switch"
    /\ out.raised = None
    /\ Len(PersistedBlocks) = 3
    /\ PersistedBlocks[1].stop = PersistedBlocks[2].start
    /\ PersistedBlocks[2].stop = PersistedBlocks[3].start
    /\ Val(PersistedBlocks[2].start) < Val(PersistedBlocks[3].start)
    /\ LastOngoing

MsgDayNotStarted == <<"Could not find today in timesheet, did you start the day?">>

(***************************************************************************)
(* C7: lunch is rejected when the day has not been started (today has no   *)
(* work block, or its last block has no start): the message is printed,    *)
(* the day's lunch stays 0 and the persisted timesheet is unchanged; once  *)
(* a block has been started, lunch(m) is accepted and the day's lunch      *)
(* becomes m.                                                              *)
(***************************************************************************)
C7_LunchAcceptedOnceStarted ==
    [][\A m \in LunchMins :
          lunch(m) =>
              IF LastNotStarted
              THEN /\ out' = Out("lunch", <<MsgDayNotStarted>>, None)
                   /\ Day_lunch(PersistedToday') = 0
                   /\ PersistedTs' = PersistedTs
              ELSE /\ out'.raised = None
                   /\ Day_lunch(PersistedToday') = m]_vars

(***************************************************************************)
(* C7, amended: lunch is rejected when the day has not been started, with  *)
(* the message, the day's lunch staying 0 and the persisted timesheet      *)
(* unchanged; once a block has been started and while the day has no lunch *)
(* yet, lunch(m) is accepted and the day's lunch becomes m.                *)
(***************************************************************************)
C7_LunchAcceptedOnceStartedAndUnset ==
    [][\A m \in LunchMins :
          lunch(m) =>
              IF LastNotStarted
              THEN /\ out' = Out("lunch", <<MsgDayNotStarted>>, None)
                   /\ Day_lunch(PersistedToday') = 0
                   /\ PersistedTs' = PersistedTs
                   /\ (files[cfg.datafile] # NoFile => files' = files)
              ELSE Day_lunch(PersistedToday) = 0 =>
                       /\ out'.raised = None
                       /\ out'.printed[Len(out'.printed)] = <<"Added mins as lunch", m>>
                       /\ Day_lunch(PersistedToday') = m]_vars

\* a lunch was rejected on a day that has a work block without a start
C7_Witness ==
    /\ Len(PersistedBlocks) > 0
    /\ LastNotStarted
    /\ Day_lunch(PersistedToday) = 0
    /\ out = Out("lunch", <<MsgDayNotStarted>>, None)

(***************************************************************************)
(* C8: first lunch wins: once the day has a lunch, a lunch call with any   *)
(* minutes prints nothing, raises nothing and leaves the timesheet file as *)
(* it is, so the day's lunch and its flex stay those of the first lunch.   *)
(***************************************************************************)
C8_FirstLunchWins ==
    [][\A m \in LunchMins :
          (Day_lunch(PersistedToday) # 0 /\ lunch(m)) =>
              /\ out' = Out("lunch", <<>>, None)
              /\ Day_lunch(PersistedToday') = Day_lunch(PersistedToday)
              /\ PersistedToday'.flex_minutes = PersistedToday.flex_minutes
              /\ files' = files]_vars

\* a lunch call was ignored on a day that has a lunch
C8_Witness ==
    /\ Day_lunch(PersistedToday) \in LunchMins
    /\ out = Out("lunch", <<>>, None)

\* every Day of every timesheet file has its time off within one workday
TimeOffInRange ==
    \A k \in DOMAIN files :
        files[k] # NoFile =>
            \A d \in DOMAIN Val(files[k]).days :
                Val(files[k]).days[d].time_off_minutes \in 0..(cfg.workhours_one_day * 60)

(***************************************************************************)
(* C9: set_time_off(m) raises ValueError and changes nothing when m < 0 or *)
(* m > workhours_one_day * 60; every m from 0 to workhours_one_day * 60 is *)
(* accepted and becomes today's time_off_minutes; so the time_off_minutes  *)
(* of every persisted Day is always from 0 to one workday's minutes.       *)
(***************************************************************************)
C9_TimeOffValidated ==
    /\ []TimeOffInRange
    /\ [][\A m \in TimeOffs :
             set_time_off(m) =>
                 IF m < 0 \/ m > cfg.workhours_one_day * 60
                 THEN /\ out'.op = "timeoff"
                      /\ out'.printed = <<>>
                      /\ out'.raised # None
                      /\ Val(out'.raised)[1] = "ValueError"
                      /\ files' = files
                 ELSE /\ out' = Out("timeoff", << <<"Setting timeoff to", m>> >>, None)
                      /\ PersistedToday'.time_off_minutes = m]_vars

\* a set_time_off was refused on a day that has a whole workday of time off
C9_Witness ==
    /\ out.op = "timeoff"
    /\ out.raised # None
    /\ PersistedToday.time_off_minutes = cfg.workhours_one_day * 60

(***************************************************************************)
(* recalc_flex on its own: a timesheet file that holds one Day, of any     *)
(* weekday, with any flex left from before, any time off and any work      *)
(* blocks the commands can leave behind, under either quota; recalc then   *)
(* applies recalc_flex to it.                                              *)
(***************************************************************************)
\* cfg.workhours_one_day, hours
WorkHours == {7, 8}

\* a Monday to a Sunday
FlexDates == 1..7

\* flex_minutes the file holds before the recalculation
StaleFlex == {0, 15}

\* time_off_minutes of the Day
FlexTimeOffs == {0, 240, 420}

\* a block never started, a running block, a stopped block and a stopped
\* block with a lunch
FlexBlocks ==
    { WorkBlock(None, None),
      WorkBlock(Some(480), None),
      [WorkBlock(Some(480), None) EXCEPT !.stop = Some(990)],
      [WorkBlock(Some(480), None) EXCEPT !.stop = Some(990), !.lunch = 30] }

\* the work blocks a day can have: a single block never started, or started
\* blocks of which only the last may be running
FlexBlockSeqs ==
    { wbs \in UNION { [1..n -> FlexBlocks] : n \in 0..MaxBlocks } :
        \/ Len(wbs) = 0
        \/ Len(wbs) = 1 /\ ~started(wbs[1]) /\ ~stopped(wbs[1])
        \/ /\ \A i \in 1..Len(wbs) : started(wbs[i])
           /\ \A i \in 1..(Len(wbs) - 1) : stopped(wbs[i]) }

\* a day of four stopped blocks without lunch: 30 minutes, 1 h 30, 6 h and
\* 5 minutes, 8 h 05 in all
FourBlocks ==
    << [WorkBlock(Some(510), None) EXCEPT !.stop = Some(540)],
       [WorkBlock(Some(630), None) EXCEPT !.stop = Some(720)],
       [WorkBlock(Some(780), None) EXCEPT !.stop = Some(1140)],
       [WorkBlock(Some(1170), None) EXCEPT !.stop = Some(1175)] >>

InitFlex ==
    /\ today \in FlexDates
    /\ cfg \in [workhours_one_day : WorkHours, datafile : {<<1, 1>>}]
    /\ projects = <<>>
    /\ out = Out("", <<>>, None)
    /\ procs = <<>>
    /\ \E f \in StaleFlex, off \in FlexTimeOffs, wbs \in FlexBlockSeqs \cup {FourBlocks} :
          files = [k \in Keys |->
                      Some(model_dump_json(
                          [Timesheet EXCEPT !.days =
                              (today :> [Day(today) EXCEPT !.flex_minutes = f,
                                                           !.time_off_minutes = off,
                                                           !.work_blocks = wbs])]))]

NextFlex == recalc

SpecFlex == InitFlex /\ [][NextFlex]_vars

\* the Day has exactly one work block, and it is not stopped
SingleUnstopped(day) ==
    Len(day.work_blocks) = 1 /\ ~stopped(day.work_blocks[1])

(***************************************************************************)
(* C10: for every Day whose work_blocks are exactly one block that is not  *)
(* stopped, recalc_flex sets flex_minutes to 0, whatever the quota, the    *)
(* weekday and the day's time_off_minutes are: applied to the Day of the   *)
(* file it gives 0, and after recalc the file holds 0.                     *)
(***************************************************************************)
C10_SingleUnstoppedBlockFlexZero ==
    \A d \in DOMAIN PersistedTs.days :
        LET day == PersistedTs.days[d]
        IN  SingleUnstopped(day) =>
                /\ recalc_flex(day, cfg.workhours_one_day).flex_minutes = 0
                /\ (out.op = "recalc" => day.flex_minutes = 0)

\* after recalc on a working day under the 7 hour quota: a Day of one
\* running block and four hours off has flex 0
C10_Witness ==
    /\ out.op = "recalc"
    /\ isoweekday(today) \notin {6, 7}
    /\ cfg.workhours_one_day = 7
    /\ SingleUnstopped(PersistedToday)
    /\ is_ongoing(PersistedBlocks[1])
    /\ PersistedToday.time_off_minutes = 240
    /\ PersistedToday.flex_minutes = 0

\* the Day has a block with a start and a stop
HasCompletedBlock(day) ==
    \E i \in 1..Len(day.work_blocks) :
        day.work_blocks[i].start # None /\ day.work_blocks[i].stop # None

\* W: stop - start - lunch summed over the blocks that have both a start and
\* a stop, in minutes
RECURSIVE CompletedMinutes(_)
CompletedMinutes(wbs) ==
    IF wbs = <<>>
    THEN 0
    ELSE (IF Head(wbs).start # None /\ Head(wbs).stop # None
          THEN Val(Head(wbs).stop) - Val(Head(wbs).start) - Head(wbs).lunch
          ELSE 0)
         + CompletedMinutes(Tail(wbs))

(***************************************************************************)
(* C11: for every Day of a Monday to a Friday that has at least one        *)
(* completed block, with quota Q minutes and time off T, recalc_flex gives *)
(* flex_minutes = W - Q + T, W being the sum of stop - start - lunch over  *)
(* the blocks with both ends; so 08:00-16:30 with a 30 minute lunch under  *)
(* an 8 hour quota gives 0 and four blocks of 8 h 05 in all give 5.        *)
(***************************************************************************)
C11_WeekdayFlexIsWorkedMinusQuotaPlusTimeOff ==
    \A d \in DOMAIN PersistedTs.days :
        LET day == PersistedTs.days[d]
            Q == cfg.workhours_one_day * 60
            T == day.time_off_minutes
            W == CompletedMinutes(day.work_blocks)
        IN  (isoweekday(day.this_date) \in 1..5 /\ HasCompletedBlock(day)) =>
                /\ recalc_flex(day, cfg.workhours_one_day).flex_minutes = W - Q + T
                /\ (out.op = "recalc" => day.flex_minutes = W - Q + T)

\* after recalc on a working day under the 8 hour quota: the four blocks of
\* 8 h 05 without time off have flex 5
C11_Witness ==
    /\ out.op = "recalc"
    /\ isoweekday(today) \in 1..5
    /\ cfg.workhours_one_day = 8
    /\ PersistedBlocks = FourBlocks
    /\ PersistedToday.time_off_minutes = 0
    /\ PersistedToday.flex_minutes = 5

(***************************************************************************)
(* C12: for every Day of a Saturday or a Sunday recalc_flex gives          *)
(* flex_minutes = the day's worked time, whatever the quota and whatever   *)
(* time_off_minutes the Day holds.                                         *)
(***************************************************************************)
C12_WeekendFlexIsWorkedTime ==
    \A d \in DOMAIN PersistedTs.days :
        LET day == PersistedTs.days[d]
            W == CompletedMinutes(day.work_blocks)
        IN  isoweekday(day.this_date) \in {6, 7} =>
                /\ recalc_flex(day, cfg.workhours_one_day).flex_minutes = W
                /\ (out.op = "recalc" => day.flex_minutes = W)

\* after recalc on a Saturday: a Day with time off and a stopped block of
\* 8 h 30 has flex 510
C12_Witness ==
    /\ out.op = "recalc"
    /\ isoweekday(today) = 6
    /\ PersistedToday.time_off_minutes = 240
    /\ Len(PersistedBlocks) = 1
    /\ stopped(PersistedBlocks[1])
    /\ PersistedToday.flex_minutes = 510

\* recalc_flex applied twice to a Day of the file gives what it gives
\* applied once, gives the same flex whatever flex the Day held, and changes
\* nothing but flex_minutes
RecalcFlexIdempotent ==
    \A d \in DOMAIN PersistedTs.days :
        LET day == PersistedTs.days[d]
            once == recalc_flex(day, cfg.workhours_one_day)
            twice == recalc_flex(once, cfg.workhours_one_day)
        IN  /\ twice.flex_minutes = once.flex_minutes
            /\ twice = once
            /\ \A f \in StaleFlex :
                   recalc_flex([day EXCEPT !.flex_minutes = f],
                               cfg.workhours_one_day).flex_minutes = once.flex_minutes
            /\ [once EXCEPT !.flex_minutes = day.flex_minutes] = day
            /\ Len(once.work_blocks) = Len(day.work_blocks)

(***************************************************************************)
(* C13: recalc is idempotent and derives the flex from the work blocks,    *)
(* the lunch and the time off alone: for any Day and any flex it held,     *)
(* recalc_flex applied twice gives the flex_minutes it gives applied once, *)
(* it changes no field of the Day but flex_minutes and adds no work block; *)
(* a recalc command after a recalc command leaves every file as it is.     *)
(***************************************************************************)
C13_RecalcIdempotent ==
    /\ []RecalcFlexIdempotent
    /\ [][(out.op = "recalc" /\ recalc) => files' = files]_vars

\* after recalc: a Day of two blocks whose flex is not 0 and is the flex
\* recalc_flex gives again
C13_Witness ==
    /\ out.op = "recalc"
    /\ Len(PersistedBlocks) = 2
    /\ PersistedToday.flex_minutes # 0
    /\ recalc_flex(PersistedToday, cfg.workhours_one_day) = PersistedToday

(***************************************************************************)
(* C14: stored flex is never stale: after any sequence of start, stop,     *)
(* switch, lunch, timeoff and comment commands under a fixed quota, the    *)
(* flex_minutes of every persisted Day is the value recalc_flex computes   *)
(* from its work blocks, lunch and time off, so a recalc changes none.     *)
(***************************************************************************)
C14_StoredFlexNeverStale ==
    \A d \in DOMAIN PersistedTs.days :
        PersistedTs.days[d].flex_minutes =
            recalc_flex(PersistedTs.days[d], cfg.workhours_one_day).flex_minutes

\* what start leaves after a set_time_off on a day without work blocks: one
\* running block and the flex of the day without blocks
C14_StaleFlexAfterStart ==
    /\ out.op = "start"
    /\ Len(PersistedBlocks) = 1
    /\ LastOngoing
    /\ PersistedToday.flex_minutes = 0 - cfg.workhours_one_day * 60
    /\ recalc_flex(PersistedToday, cfg.workhours_one_day).flex_minutes = 0

(***************************************************************************)
(* C15: an accepted start at time t appends a new block with start t when  *)
(* the day's last block is stopped (one block more, the earlier blocks     *)
(* untouched), and sets the start of the placeholder in place when the day *)
(* has no started block (the day then has exactly one block); either way   *)
(* the last block afterwards is started at t and has no stop.              *)
(***************************************************************************)
C15_StartAppendsOrFillsPlaceholder ==
    [][\A t \in Times :
          (~LastOngoing /\ start(t)) =>
              LET n == Len(PersistedBlocks)
                  old == PersistedBlocks
                  new == PersistedBlocks'
              IN  /\ out'.raised = None
                  /\ out'.printed[1] = <<"Starting at", t>>
                  /\ IF LastStopped
                     THEN /\ Len(new) = n + 1
                          /\ \A i \in 1..n : new[i] = old[i]
                     ELSE Len(new) = 1
                  /\ new[Len(new)].start = Some(t)
                  /\ new[Len(new)].stop = None
                  /\ LastOngoing']_vars

\* a start was accepted on a day whose last block was stopped: the day has
\* two blocks, the first stopped, the second started at the time given
C15_Witness ==
    /\ out.op = "start"
    /\ out.raised = None
    /\ Len(out.printed) > 0
    /\ out.printed[1][1] = "Starting at"
    /\ Len(PersistedBlocks) = 2
    /\ stopped(PersistedBlocks[1])
    /\ PersistedBlocks[2].start = Some(out.printed[1][2])
    /\ LastOngoing

\* a lunch is recorded on a block of the day
LunchRecorded(wbs) == \E i \in 1..Len(wbs) : wbs[i].lunch # 0

(***************************************************************************)
(* C16: an accepted start at time t reports the estimated end time         *)
(* t + (quota minutes - today's time_off_minutes - the worked time of      *)
(* today's blocks) + L, as a time of day in minutes, where L is the        *)
(* default lunch duration (30) when no lunch is recorded for the day and 0 *)
(* otherwise.                                                              *)
(***************************************************************************)
C16_StartReportsEstimatedEnd ==
    [][\A t \in Times :
          (~LastOngoing /\ start(t)) =>
              LET Q == cfg.workhours_one_day * 60
                  T == PersistedToday.time_off_minutes
                  W == CompletedMinutes(PersistedBlocks)
                  L == IF LunchRecorded(PersistedBlocks) THEN 0 ELSE 30
              IN  /\ Len(out'.printed) = 2
                  /\ out'.printed[2][1] = "Estimated end time for today"
                  /\ out'.printed[2][3] = (t + (Q - T - W) + L) % 1440]_vars

\* a start was accepted on a day with a lunch of 20 minutes and a whole day
\* of time off, and an end time was reported
C16_Witness ==
    /\ out.op = "start"
    /\ Len(out.printed) = 2
    /\ out.printed[2][1] = "Estimated end time for today"
    /\ LunchRecorded(PersistedBlocks)
    /\ PersistedToday.time_off_minutes = cfg.workhours_one_day * 60
    /\ stopped(PersistedBlocks[1])
    /\ LastOngoing

\* lunch(m) is accepted: the day is started and has no lunch
LunchAccepted == ~LastNotStarted /\ ~LunchRecorded(PersistedBlocks)

(***************************************************************************)
(* C17: an accepted lunch(m) reports an estimated end time of the form of  *)
(* start's: (start of the day's last block) + (quota minutes - today's     *)
(* time_off_minutes - worked time so far) + m, for every time_off_minutes  *)
(* set on the day.                                                         *)
(***************************************************************************)
C17_LunchReportsEstimatedEnd ==
    [][\A m \in LunchMins :
          (LunchAccepted /\ lunch(m)) =>
              LET Q == cfg.workhours_one_day * 60
                  T == PersistedToday.time_off_minutes
                  W == CompletedMinutes(PersistedBlocks)
                  S == Val(PersistedBlocks[Len(PersistedBlocks)].start)
              IN  /\ Len(out'.printed) = 2
                  /\ out'.printed[1][1] = "Estimated end time for today"
                  /\ out'.printed[1][3] = (S + (Q - T - W) + m) % 1440]_vars

\* what lunch reports: the end time without the time off
C17_LunchEstimateLeavesTimeOffOut ==
    [][\A m \in LunchMins :
          (LunchAccepted /\ lunch(m)) =>
              LET Q == cfg.workhours_one_day * 60
                  W == CompletedMinutes(PersistedBlocks)
                  S == Val(PersistedBlocks[Len(PersistedBlocks)].start)
              IN  /\ Len(out'.printed) = 2
                  /\ out'.printed[1][1] = "Estimated end time for today"
                  /\ out'.printed[1][3] = (S + (Q - W) + m) % 1440]_vars

MsgCannotSetComment == <<"Cannot set comment for workblock not started">>

(***************************************************************************)
(* C18: set_comment(text) sets the comment of today's last block only when *)
(* that block is started and not stopped; in every other state (no block,  *)
(* a block never started, a stopped block) it prints a message and changes *)
(* nothing: the timesheet the call persists is the timesheet persisted     *)
(* before it.                                                              *)
(***************************************************************************)
C18_CommentOnlyOnRunningBlock ==
    [][\A c \in Comments :
          set_comment(c) =>
              IF LastOngoing
              THEN /\ out' = Out("comment", <<>>, None)
                   /\ PersistedBlocks' =
                          [PersistedBlocks EXCEPT ![Len(PersistedBlocks)].comment = c]
              ELSE /\ out' = Out("comment", <<MsgCannotSetComment>>, None)
                   /\ PersistedTs' = PersistedTs]_vars

\* what a refused set_comment leaves on a day the file did not hold: the
\* Day, with one block that was never started
C18_RefusedCommentPersistsPlaceholder ==
    /\ out = Out("comment", <<MsgCannotSetComment>>, None)
    /\ today \in DOMAIN PersistedTs.days
    /\ PersistedBlocks = <<WorkBlock(None, None)>>
    /\ PersistedToday.time_off_minutes = 0

\* what holds of a refused set_comment: no block that the file held is
\* changed, and the day as the commands read it (today's Day created, the
\* placeholder appended) is the same before and after
C18_RefusedCommentKeepsBlocks ==
    [][\A c \in Comments :
          (~LastOngoing /\ set_comment(c)) =>
              /\ out' = Out("comment", <<MsgCannotSetComment>>, None)
              /\ last_work_block(PersistedToday') = last_work_block(PersistedToday)
              /\ (Len(PersistedBlocks) > 0 /\ today \in DOMAIN PersistedTs.days
                     => files' = files)]_vars

(***************************************************************************)
(* C19: after an accepted stop(time, comment) the stopped block's stop is  *)
(* time and its comment is the comment argument, whatever comment the      *)
(* block held: the last write wins, also when stop is given no comment     *)
(* after the comment command set one.                                      *)
(***************************************************************************)
C19_StopSetsStopAndComment ==
    [][\A t \in Times, c \in Comments :
          (LastOngoing /\ stop(t, c)) =>
              LET n == Len(PersistedBlocks)
              IN  /\ out'.raised = None
                  /\ out'.printed[1] = <<"Stopping at", t>>
                  /\ Len(PersistedBlocks') = n
                  /\ PersistedBlocks'[n].stop = Some(t)
                  /\ PersistedBlocks'[n].comment = c
                  /\ PersistedBlocks'[n].start = PersistedBlocks[n].start
                  /\ \A i \in 1..(n - 1) : PersistedBlocks'[i] = PersistedBlocks[i]]_vars

\* a stop without a comment was accepted: the block is stopped at the time
\* given and has no comment
C19_Witness ==
    /\ out.op = "stop"
    /\ Len(out.printed) = 2
    /\ out.printed[1][1] = "Stopping at"
    /\ LastStopped
    /\ PersistedBlocks[Len(PersistedBlocks)].stop = Some(out.printed[1][2])
    /\ PersistedBlocks[Len(PersistedBlocks)].comment = None

(***************************************************************************)
(* A day of starts, stops and switches with projects: projects.json holds  *)
(* two projects, the second one deleted, so start, stop and switch prompt  *)
(* for a project, and a prompt can be answered or interrupted.             *)
(***************************************************************************)
Project(id_, name_, deleted_) == [id |-> id_, name |-> name_, deleted |-> deleted_]

InitProjects ==
    /\ files = [k \in Keys |-> NoFile]
    /\ projects = <<Project(1, "p1", FALSE), Project(2, "p2", TRUE)>>
    /\ cfg = [workhours_one_day |-> DEFAULT_WORK_HOURS, datafile |-> <<1, 1>>]
    /\ today \in Dates
    /\ out = Out("", <<>>, None)
    /\ procs = <<>>

NextProjects ==
    \/ \E t \in Times : start(t) /\ Bounded'
    \/ \E t \in Times : stop(t, None)
    \/ \E t \in Times : switch(t) /\ Bounded'

SpecProjects == InitProjects /\ [][NextProjects]_vars

\* the project ids a prompt can return here
ProjectIds == {None, Some(1), Some(2)}

(***************************************************************************)
(* C20: switch is all-or-nothing with respect to the project prompts: when *)
(* either prompt is interrupted the persisted day is exactly as before the *)
(* switch (the running block not stopped and with its old project, no      *)
(* block appended); otherwise the closed block and the new block are both  *)
(* set.  No switch leaves the block stopped without the new block, or the  *)
(* project reassigned without the stop.                                    *)
(***************************************************************************)
C20_SwitchAllOrNothing ==
    [][\A t \in Times :
          (LastOngoing /\ switch(t)) =>
              LET n == Len(PersistedBlocks)
                  old == PersistedBlocks
                  new == PersistedBlocks'
              IN  \/ /\ out'.raised # None
                     /\ files' = files
                     /\ new = old
                     /\ new[n].stop = None
                     /\ new[n].project_id = old[n].project_id
                  \/ /\ out'.raised = None
                     /\ Len(new) = n + 1
                     /\ \A i \in 1..(n - 1) : new[i] = old[i]
                     /\ new[n].stop = Some(t)
                     /\ new[n].project_id \in ProjectIds
                     /\ [new[n] EXCEPT !.stop = None, !.project_id = old[n].project_id] = old[n]
                     /\ new[n + 1].start = Some(t)
                     /\ new[n + 1].stop = None
                     /\ new[n + 1].project_id \in ProjectIds]_vars

\* a switch was interrupted at the prompt for the new block's project, on
\* a block of project 1: the block still runs, with project 1
C20_Witness ==
    /\ Len(projects) > 0
    /\ out.op = "switch"
    /\ out.raised = Some(<<"KeyboardInterrupt", "new project">>)
    /\ LastOngoing
    /\ PersistedBlocks[Len(PersistedBlocks)].project_id = Some(1)

(***************************************************************************)
(* The data directory with the timesheet files of several months and       *)
(* years.                                                                  *)
(***************************************************************************)
\* Config.reload: "{year}-{month:02d}-timesheet.json" of the date the
\* program was started on
datafile_of(d) == <<year_of(d), month_of(d)>>

\* the timesheet files the directory can hold
FileKeys == {<<1, 1>>, <<1, 2>>, <<2, 1>>}

\* the dates the program is run on: Friday 0001-01-05, Friday 0001-02-02
\* and Friday 0002-01-04
FileDates == {5, 33, 369}

\* a working day of each file
OwnDate == (<<1, 1>> :> 5) @@ (<<1, 2>> :> 33) @@ (<<2, 1>> :> 369)

\* a Day worked from 08:00 to 16:30 that holds flex f
WorkedDay(d, f) ==
    [Day(d) EXCEPT !.flex_minutes = f,
                   !.work_blocks =
                       << [WorkBlock(Some(480), None) EXCEPT !.stop = Some(990)] >>]

\* What a file can hold: nothing (the file does not exist), its working
\* day with the flex of the 8 hour quota, or that day with an older flex
\* and the Saturday four weeks on, which belongs to the next month (the
\* program was left running into it).
FileSheets(k) ==
    { NoFile,
      Some(model_dump_json(
          [Timesheet EXCEPT !.days = (OwnDate[k] :> WorkedDay(OwnDate[k], 30))])),
      Some(model_dump_json(
          [Timesheet EXCEPT !.days =
              (OwnDate[k] :> WorkedDay(OwnDate[k], 15))
                  @@ ((OwnDate[k] + 29) :> WorkedDay(OwnDate[k] + 29, 510))])) }

InitFiles ==
    /\ today \in FileDates
    /\ cfg \in [workhours_one_day : WorkHours, datafile : {datafile_of(today)}]
    /\ projects = <<>>
    /\ out = Out("", <<>>, None)
    /\ procs = <<>>
    /\ files \in { f \in [FileKeys -> UNION {FileSheets(k) : k \in FileKeys}] :
                     \A k \in FileKeys : f[k] \in FileSheets(k) }

\* the Timesheet a file that exists holds
FileTs(fs, k) == model_validate_json(Val(fs[k]))

\* abs()
abs(x) == IF x < 0 THEN 0 - x ELSE x

\* fmt_mins that formats the signed value, without abs()
Mut_fmt_mins(mins, expand) ==
    LET sign == IF mins >= 0 THEN "" ELSE "-"
    IN  IF mins < 60 /\ ~expand
        THEN <<sign, mins, "min">>
        ELSE <<sign, mins \div 60, "h ", mins % 60, "min">>

\* fmt_mins: the pieces of the string it returns, f"{sign}{mins}min" or
\* f"{sign}{mins // 60}h {mins % 60}min"
fmt_mins(mins, expand) ==
    LET sign == IF mins >= 0 THEN "" ELSE "-"
        mins_ == abs(mins)
    IN  IF mins_ < 60 /\ ~expand
        THEN <<sign, mins_, "min">>
        ELSE <<sign, mins_ \div 60, "h ", mins_ % 60, "min">>

\* calc_total_flex: the sum of monthly_flex over glob("*-timesheet.json")
calc_total_flex(fs) ==
    LET RECURSIVE Sum(_)
        Sum(S) == IF S = {} THEN 0
                  ELSE LET k == CHOOSE x \in S : TRUE
                       IN  monthly_flex(load_timesheet(fs, k).ts) + Sum(S \ {k})
    IN  Sum({k \in DOMAIN fs : fs[k] # NoFile})

\* total_flex_as_str(): the string is what the command leaves
total_flex_as_str ==
    /\ out' = Out("total_flex_as_str", fmt_mins(calc_total_flex(files), FALSE), None)
    /\ UNCHANGED <<files, projects, cfg, today, procs>>

\* load_timesheet(datafile) called for a file of the directory: the
\* Timesheet it returns, or the FileNotFoundError open() raises
call_load_timesheet(datafile) ==
    LET l == load_timesheet(files, datafile)
    IN  /\ files' = l.files
        /\ out' = IF l.raised
                  THEN Out("load_timesheet", <<>>, Some("FileNotFoundError"))
                  ELSE Out("load_timesheet", <<l.ts>>, None)
        /\ UNCHANGED <<projects, cfg, today, procs>>

NextFiles ==
    \/ recalc
    \/ total_flex_as_str
    \/ \E k \in FileKeys : call_load_timesheet(k)

SpecFiles == InitFiles /\ [][NextFiles]_vars

(***************************************************************************)
(* C21: recalc recomputes flex_minutes of every Day of every timesheet     *)
(* file of the current year, under the quota of now, and leaves the rest   *)
(* of those Days as it was; every timesheet file of another year is left   *)
(* exactly as it was, and no file is created.                              *)
(***************************************************************************)
C21_RecalcOnlyCurrentYear ==
    [][recalc =>
          \A k \in DOMAIN files :
              IF files[k] # NoFile /\ key_year(k) = year_of(today)
              THEN /\ files'[k] # NoFile
                   /\ DOMAIN FileTs(files', k).days = DOMAIN FileTs(files, k).days
                   /\ \A d \in DOMAIN FileTs(files, k).days :
                          FileTs(files', k).days[d] =
                              recalc_flex(FileTs(files, k).days[d], cfg.workhours_one_day)
              ELSE files'[k] = files[k]]_vars

\* after recalc in year 1 under the 7 hour quota: the January file of year
\* 1 holds the flex of that quota (8 h 30 worked: 90), the file of year 2
\* still holds the older flex 15
C21_Witness ==
    /\ out.op = "recalc"
    /\ year_of(today) = 1
    /\ cfg.workhours_one_day = 7
    /\ files[<<1, 1>>] # NoFile
    /\ FileTs(files, <<1, 1>>).days[5].flex_minutes = 90
    /\ files[<<2, 1>>] # NoFile
    /\ FileTs(files, <<2, 1>>).days[369].flex_minutes = 15

\* the last date a file of the directory holds a Day of
MaxDate == 400

\* flex_minutes of the Days of ts dated lo .. hi, added half by half
RECURSIVE FlexBetween(_, _, _)
FlexBetween(ts, lo, hi) ==
    IF lo > hi
    THEN 0
    ELSE IF lo = hi
         THEN (IF lo \in DOMAIN ts.days THEN ts.days[lo].flex_minutes ELSE 0)
         ELSE LET mid == (lo + hi) \div 2
              IN  FlexBetween(ts, lo, mid) + FlexBetween(ts, mid + 1, hi)

\* monthly_flex of the file k, 0 for a file that does not exist
FileFlex(k) == IF files[k] = NoFile THEN 0 ELSE monthly_flex(FileTs(files, k))

(***************************************************************************)
(* C22: monthly_flex of the Timesheet of a file is the sum of flex_minutes *)
(* over every Day of its days mapping, of whatever month the Day is, and   *)
(* the total flex (calc_total_flex, and what total_flex_as_str formats) is *)
(* the sum of monthly_flex over the files.                                 *)
(***************************************************************************)
C22_MonthlyFlexSumsEveryDay ==
    /\ \A k \in DOMAIN files :
          files[k] # NoFile =>
              /\ \A d \in DOMAIN FileTs(files, k).days : d \in 1..MaxDate
              /\ monthly_flex(FileTs(files, k)) = FlexBetween(FileTs(files, k), 1, MaxDate)
    /\ calc_total_flex(files) = FileFlex(<<1, 1>>) + FileFlex(<<1, 2>>) + FileFlex(<<2, 1>>)
    /\ out.op = "total_flex_as_str" =>
          out.printed =
              fmt_mins(FileFlex(<<1, 1>>) + FileFlex(<<1, 2>>) + FileFlex(<<2, 1>>), FALSE)

\* in January the January file holds a Day of January with flex 15 and a
\* Day of February with flex 510, its monthly_flex is 525, and with the
\* 30 of the February file the total shown is 555: 9h 15min
C22_Witness ==
    /\ out.op = "total_flex_as_str"
    /\ month_of(today) = 1
    /\ files[<<1, 1>>] # NoFile
    /\ DOMAIN FileTs(files, <<1, 1>>).days = {5, 34}
    /\ monthly_flex(FileTs(files, <<1, 1>>)) = 525
    /\ files[<<1, 2>>] # NoFile
    /\ monthly_flex(FileTs(files, <<1, 2>>)) = 30
    /\ files[<<2, 1>>] = NoFile
    /\ out.printed = <<"", 9, "h ", 15, "min">>

(***************************************************************************)
(* Saving a Timesheet built in memory and loading it back, as              *)
(* test_monthly_flextime does.                                             *)
(***************************************************************************)
\* target_hours of the Timesheet: the default and one set_target_hours gave
TargetHours == {DEFAULT_TARGET_HOURS, 160}

\* The Timesheets saved: three Days that hold flex 38, 2 and 2 and no
\* block, or today's Day with any flex, time off and work blocks the
\* commands can leave.
RoundTripSheets ==
    { [Timesheet EXCEPT !.days =
          (today :> [Day(today) EXCEPT !.flex_minutes = 38])
              @@ ((today + 1) :> [Day(today + 1) EXCEPT !.flex_minutes = 2])
              @@ ((today + 2) :> [Day(today + 2) EXCEPT !.flex_minutes = 2])] }
    \cup
    { [Timesheet EXCEPT !.target_hours = th,
                        !.days = (today :> [Day(today) EXCEPT !.flex_minutes = f,
                                                              !.time_off_minutes = off,
                                                              !.work_blocks = wbs])] :
          th \in TargetHours, f \in StaleFlex, off \in FlexTimeOffs,
          wbs \in FlexBlockSeqs \cup {FourBlocks} }

\* save_timesheet(ts) and then ts = load_timesheet(): the command leaves
\* the Timesheet saved and the Timesheet loaded
save_and_load(ts) ==
    LET fs == save_timesheet(files, ts, cfg.datafile)
        l == load_timesheet(fs, cfg.datafile)
    IN  /\ files' = l.files
        /\ out' = Out("save_and_load", <<ts, l.ts>>, None)
        /\ UNCHANGED <<projects, cfg, today, procs>>

InitRoundTrip ==
    /\ files = [k \in Keys |-> NoFile]
    /\ projects = <<>>
    /\ cfg = [workhours_one_day |-> DEFAULT_WORK_HOURS, datafile |-> <<1, 1>>]
    /\ today \in FlexDates
    /\ out = Out("", <<>>, None)
    /\ procs = <<>>

NextRoundTrip == \E ts \in RoundTripSheets : save_and_load(ts)

SpecRoundTrip == InitRoundTrip /\ [][NextRoundTrip]_vars

C24_LoadCreatesUnderSameKey ==
    [][\A k \in FileKeys :
          (files[k] = NoFile /\ call_load_timesheet(k)) =>
              /\ out'.raised = None
              /\ out'.printed = <<Timesheet>>
              /\ files'[k] = Some(model_dump_json(Timesheet))
              /\ \A j \in FileKeys \ {k} : files'[j] = files[j]]_vars

\* C24 for the file of cfg.datafile, the one save_timesheet writes when it
\* is given no name: this much holds
C24_LoadCreatesDatafile ==
    [][(files[cfg.datafile] = NoFile /\ call_load_timesheet(cfg.datafile)) =>
          /\ out'.raised = None
          /\ out'.printed = <<Timesheet>>
          /\ files'[cfg.datafile] = Some(model_dump_json(Timesheet))
          /\ \A j \in FileKeys \ {cfg.datafile} : files'[j] = files[j]]_vars

\* load_timesheet of a missing file other than cfg.datafile: whatever
\* cfg.datafile held is replaced by an empty Timesheet, the file asked for
\* still does not exist, and open() raises
C24_LoadOfOtherKeyReplacesDatafile ==
    [][\A k \in FileKeys \ {cfg.datafile} :
          (files[k] = NoFile /\ call_load_timesheet(k)) =>
              /\ out'.raised = Some("FileNotFoundError")
              /\ files'[k] = NoFile
              /\ files'[cfg.datafile] = Some(model_dump_json(Timesheet))]_vars

\* after such a call the January file, which held two Days, is empty
C24_DatafileEmptiedByLoad ==
    /\ out.op = "load_timesheet"
    /\ out.raised = Some("FileNotFoundError")
    /\ cfg.datafile = <<1, 1>>
    /\ files[<<1, 2>>] = NoFile
    /\ files[<<1, 1>>] = Some(model_dump_json(Timesheet))

(***************************************************************************)
(* The view command: the Days of a range of dates are taken from the       *)
(* timesheet of cfg.datafile with get_days and printed.                    *)
(***************************************************************************)
\* ViewSpans
ViewSpans == {"TODAY", "WEEK", "PREV_WEEK", "MONTH"}

\* date.replace(day=1) and the last day of the month of d
month_first(d) == 365 * (year_of(d) - 1) + MonthStart[month_of(d)]

month_last(d) ==
    IF month_of(d) = 12
    THEN 365 * year_of(d)
    ELSE 365 * (year_of(d) - 1) + MonthStart[month_of(d) + 1] - 1

\* get_range whose week begins on the Sunday
Mut_get_range(view_span, base_date) ==
    CASE view_span = "TODAY" -> <<base_date, base_date>>
      [] view_span = "WEEK" -> <<base_date - isoweekday(base_date), base_date>>
      [] view_span = "PREV_WEEK" ->
             LET start_date == base_date - (isoweekday(base_date) + 7)
             IN  <<start_date, start_date + 6>>
      [] view_span = "MONTH" -> <<month_first(base_date), month_last(base_date)>>

\* DateRange.get_range(view_span, base_date): <<start_date, end_date>>
get_range(view_span, base_date) ==
    CASE view_span = "TODAY" -> <<base_date, base_date>>
      [] view_span = "WEEK" -> <<base_date - (isoweekday(base_date) - 1), base_date>>
      [] view_span = "PREV_WEEK" ->
             LET start_date == base_date - (isoweekday(base_date) + 6)
             IN  <<start_date, start_date + 6>>
      [] view_span = "MONTH" -> <<month_first(base_date), month_last(base_date)>>

\* the loop of get_days: the Timesheet and the Days collected so far
RECURSIVE get_days_from(_, _, _, _)
get_days_from(ts, from_date, to_date, days) ==
    IF from_date <= to_date
    THEN LET ts1 == get_day(ts, from_date)
         IN  get_days_from(ts1, from_date + 1, to_date, Append(days, ts1.days[from_date]))
    ELSE [ts |-> ts, days |-> days]

\* get_days that stops before the end date
Mut_get_days(ts, start_date, end_date) ==
    get_days_from(ts, start_date, end_date - 1, <<>>)

\* get_days(start_date, end_date): the Timesheet afterwards and the list of
\* Days returned
get_days(ts, start_date, end_date) ==
    get_days_from(ts, start_date, end_date, <<>>)

\* Projects.get_project_by_id: the projects with the id (none: ValueError)
get_project_by_id(project_id) ==
    {i \in 1..Len(projects) : projects[i].id = project_id}

\* _print_work_blocks: the lines of one block
print_work_block(block) ==
    (IF ~stopped(block)
     THEN << <<"block", block.start>> >>
     ELSE << <<"block", block.start, block.stop,
               fmt_mins(WorkBlock_worked_time(block), FALSE)>> >>)
    \o (IF block.comment # None THEN << <<"comment", Val(block.comment)>> >> ELSE <<>>)
    \o (IF block.project_id # None
        THEN << <<"Project", {projects[i].name : i \in get_project_by_id(Val(block.project_id))}>> >>
        ELSE <<>>)

RECURSIVE print_work_blocks(_)
print_work_blocks(blocks) ==
    IF blocks = <<>>
    THEN <<>>
    ELSE print_work_block(Head(blocks)) \o print_work_blocks(Tail(blocks))

\* _print_day: the header and the blocks
print_day(day) ==
    << <<"day", day.this_date,
         fmt_mins(Day_worked_time(day), TRUE),
         fmt_mins(Day_lunch(day), FALSE),
         fmt_mins(day.flex_minutes, FALSE)>> >>
    \o print_work_blocks(day.work_blocks)

\* print_days: the Days with an empty line between them
RECURSIVE print_days(_)
print_days(days) ==
    IF Len(days) = 0
    THEN <<>>
    ELSE IF Len(days) = 1
         THEN print_day(days[1])
         ELSE print_day(Head(days)) \o << <<"">> >> \o print_days(Tail(days))

\* _print_footer
print_footer(days) ==
    LET weekly_flex == SumSeq([i \in 1..Len(days) |-> days[i].flex_minutes])
    IN  << <<"---">>, <<"Weekly flex", fmt_mins(weekly_flex, FALSE)>> >>

\* a block of the days has a project that projects.json does not hold
unknown_project(days) ==
    \E i \in 1..Len(days) : \E j \in 1..Len(days[i].work_blocks) :
        /\ days[i].work_blocks[j].project_id # None
        /\ get_project_by_id(Val(days[i].work_blocks[j].project_id)) = {}

\* view(view_span): nothing is saved, but load_timesheet creates the file
\* when it is missing.  A block with an unknown project ends the printing
\* with ValueError.
view(view_span) ==
    LET range == get_range(view_span, today)
        l == load_timesheet(files, cfg.datafile)
        days == get_days(l.ts, range[1], range[2]).days
    IN  /\ files' = l.files
        /\ out' = IF unknown_project(days)
                  THEN Out("view", <<>>, Some(<<"ValueError", "No project with id">>))
                  ELSE Out("view",
                           print_days(days)
                               \o (IF view_span \in {"WEEK", "PREV_WEEK"}
                                   THEN print_footer(days)
                                   ELSE <<>>),
                           None)
        /\ UNCHANGED <<projects, cfg, today, procs>>

\* the dates the view is asked for: the second and the third week of
\* January, a Monday to a Sunday twice
ViewDates == 8..21

\* a stopped block
Block(start_, stop_, lunch_) ==
    [WorkBlock(Some(start_), None) EXCEPT !.stop = Some(stop_), !.lunch = lunch_]

\* a Day with the work blocks and the flex the commands leave
ViewDay(d, wbs) ==
    recalc_flex([Day(d) EXCEPT !.work_blocks = wbs], DEFAULT_WORK_HOURS)

\* the Days of test_view_week: Sunday the 7th, Tuesday the 9th and
\* Wednesday the 10th (flex 480, -2 and 20), no Day for Monday the 8th
TestWeekDays ==
    (7 :> ViewDay(7, <<Block(480, 990, 30)>>))
        @@ (9 :> ViewDay(9, <<Block(482, 990, 30)>>))
        @@ (10 :> ViewDay(10, <<Block(482, 861, 25), Block(901, 1047, 0)>>))

\* a short Thursday (flex -120), a long Friday (flex 45) and a Monday with
\* a running block
MoreDays ==
    (11 :> ViewDay(11, <<Block(480, 840, 0)>>))
        @@ (12 :> ViewDay(12, <<Block(480, 1005, 0)>>))
        @@ (15 :> ViewDay(15, <<WorkBlock(Some(480), None)>>))

\* what the timesheet file holds when the program is run
ViewSheets ==
    { NoFile,
      Some(model_dump_json(Timesheet)),
      Some(model_dump_json([Timesheet EXCEPT !.days = TestWeekDays])),
      Some(model_dump_json([Timesheet EXCEPT !.days = TestWeekDays @@ MoreDays])),
      Some(model_dump_json([Timesheet EXCEPT !.days = (11 :> MoreDays[11])])) }

InitView ==
    /\ today \in ViewDates
    /\ cfg = [workhours_one_day |-> DEFAULT_WORK_HOURS, datafile |-> datafile_of(today)]
    /\ projects = <<>>
    /\ out = Out("", <<>>, None)
    /\ procs = <<>>
    /\ files \in [Keys -> ViewSheets]

NextView ==
    \/ \E span \in ViewSpans : view(span)
    \/ \E m \in TimeOffs : set_time_off(m)

SpecView == InitView /\ [][NextView]_vars

\* the keys get_day is tried with: the dates of January
DayKeys == 1..31

\* the empty Day get_day and today create
EmptyDay(d) ==
    [this_date |-> d, flex_minutes |-> 0, work_blocks |-> <<>>, time_off_minutes |-> 0]

(***************************************************************************)
(* C25: get_day(key) and today return the Day the timesheet has under the  *)
(* key and leave the timesheet as it is, or, when the key is absent, add   *)
(* an empty Day (no blocks, flex 0, time off 0) dated as the key; a second *)
(* call changes nothing more, no other key is added, removed or changed,   *)
(* and every Day of every file has the date of its key.                    *)
(***************************************************************************)
C25_GetDayCacheOrCreate ==
    /\ \A k \in DOMAIN files :
          files[k] # NoFile =>
              \A d \in DOMAIN FileTs(files, k).days : FileTs(files, k).days[d].this_date = d
    /\ \A key \in DayKeys :
          LET ts == PersistedTs
              r == get_day(ts, key)
          IN  /\ key \in DOMAIN ts.days => r = ts
              /\ key \notin DOMAIN ts.days => r.days[key] = EmptyDay(key)
              /\ DOMAIN r.days = (DOMAIN ts.days) \cup {key}
              /\ \A d \in (DOMAIN ts.days) \ {key} : r.days[d] = ts.days[d]
              /\ r.target_hours = ts.target_hours
              /\ get_day(r, key) = r
    /\ LET ts == PersistedTs
           r == Timesheet_today(ts, today)
       IN  /\ today \in DOMAIN ts.days => r = ts
           /\ today \notin DOMAIN ts.days => r.days[today] = EmptyDay(today)
           /\ DOMAIN r.days = (DOMAIN ts.days) \cup {today}
           /\ \A d \in (DOMAIN ts.days) \ {today} : r.days[d] = ts.days[d]
           /\ Timesheet_today(r, today) = r

\* timeoff on Monday the 8th, which the file had no Day for, stored an
\* empty Day dated the 8th next to the Days of the 7th, 9th and 10th
C25_Witness ==
    /\ out.op = "timeoff"
    /\ out.raised = None
    /\ today = 8
    /\ DOMAIN PersistedTs.days = {7, 8, 9, 10}
    /\ PersistedTs.days[8] = [EmptyDay(8) EXCEPT !.flex_minutes = -480]
    /\ PersistedTs.days[9] = TestWeekDays[9]
    /\ get_day(PersistedTs, 9) = PersistedTs

\* the start and end dates get_days is tried with
RangeEnds == 6..12

\* the "day" header lines of what view printed
DayLines(printed) == SelectSeq(printed, LAMBDA ln : ln[1] = "day")

(***************************************************************************)
(* C26: get_days(start, end) returns the Days of every date from start to  *)
(* end, both included, in ascending order of date (end - start + 1 Days    *)
(* when start <= end, none when start > end); afterwards every date of     *)
(* the range is a key of days, and the Days the timesheet already had,     *)
(* inside the range or outside it, are as they were.  view prints one      *)
(* header for each date of its range, in that order.                       *)
(***************************************************************************)
C26_GetDaysInclusiveRange ==
    /\ [](\A s \in RangeEnds, e \in RangeEnds :
            LET ts == PersistedTs
                r == get_days(ts, s, e)
            IN  /\ Len(r.days) = IF s <= e THEN e - s + 1 ELSE 0
                /\ \A i \in 1..Len(r.days) :
                       /\ r.days[i].this_date = s + i - 1
                       /\ r.days[i] = r.ts.days[s + i - 1]
                /\ DOMAIN r.ts.days = (DOMAIN ts.days) \cup (s..e)
                /\ \A d \in DOMAIN ts.days : r.ts.days[d] = ts.days[d]
                /\ \A d \in (s..e) \ DOMAIN ts.days : r.ts.days[d] = EmptyDay(d))
    /\ [][\A span \in ViewSpans :
             view(span) =>
                 LET range == get_range(span, today)
                     lines == DayLines(out'.printed)
                 IN  /\ Len(lines) = range[2] - range[1] + 1
                     /\ \A i \in 1..Len(lines) : lines[i][2] = range[1] + i - 1]_vars

\* view prev_week on Monday the 15th printed the seven Days from the 8th
\* to the 14th, the 8th (absent from the file) as an empty Day and the
\* 10th with its two blocks
C26_Witness ==
    /\ out.op = "view"
    /\ today = 15
    /\ DOMAIN PersistedTs.days = {7, 9, 10}
    /\ Len(DayLines(out.printed)) = 7
    /\ DayLines(out.printed)[1] =
           <<"day", 8, fmt_mins(0, TRUE), fmt_mins(0, FALSE), fmt_mins(0, FALSE)>>
    /\ DayLines(out.printed)[3] =
           <<"day", 10, <<"", 8, "h ", 20, "min">>, <<"", 25, "min">>, <<"", 20, "min">> >>
    /\ DayLines(out.printed)[7][2] = 14

\* the Monday of the ISO week of d: the one Monday among d - 6 .. d
MondayOf(d) == CHOOSE m \in (d - 6)..d : isoweekday(m) = 1

\* the last line view printed
LastLine(printed) == printed[Len(printed)]

(***************************************************************************)
(* C27: for every base date d the WEEK range is from the Monday of d's     *)
(* week to d, and the PREV_WEEK range is the seven days, a Monday to a     *)
(* Sunday, that end the day before that Monday; the weekly flex view       *)
(* prints for either range is the sum of flex_minutes over the Days of     *)
(* the range in the timesheet of cfg.datafile (a date without a Day        *)
(* counts 0).                                                              *)
(***************************************************************************)
C27_WeekRanges ==
    [][\A span \in {"WEEK", "PREV_WEEK"} :
          view(span) =>
              LET range == get_range(span, today)
                  monday == MondayOf(today)
              IN  /\ isoweekday(monday) = 1
                  /\ monday <= today /\ today <= monday + 6
                  /\ span = "WEEK" => range = <<monday, today>>
                  /\ span = "PREV_WEEK" =>
                         /\ range = <<monday - 7, monday - 1>>
                         /\ isoweekday(range[1]) = 1
                         /\ isoweekday(range[2]) = 7
                  /\ out'.raised = None
                  /\ LastLine(out'.printed) =
                         <<"Weekly flex",
                           fmt_mins(FlexBetween(PersistedTs, range[1], range[2]), FALSE)>>]_vars

\* view week on Wednesday the 10th, with flex -2 on the 9th, 20 on the
\* 10th and no Day for Monday the 8th: the Days of the 8th to the 10th
\* and "Weekly flex: 18min"
C27_Witness ==
    /\ out.op = "view"
    /\ today = 10
    /\ DOMAIN PersistedTs.days = {7, 9, 10}
    /\ Len(DayLines(out.printed)) = 3
    /\ DayLines(out.printed)[1][2] = 8
    /\ LastLine(out.printed) = <<"Weekly flex", <<"", 18, "min">> >>

\* the minutes fmt_mins is tried with, beyond two hours either way
FmtMins == (0 - 130)..130

\* what C28 says of the pieces r of fmt_mins(m, expand)
FmtAsClaimed(r, m, expand) ==
    LET a == IF m < 0 THEN 0 - m ELSE m
    IN  /\ r[1] = (IF m < 0 THEN "-" ELSE "")
        /\ IF a < 60 /\ ~expand
           THEN r = <<r[1], a, "min">>
           ELSE /\ Len(r) = 5
                /\ r[3] = "h "
                /\ r[5] = "min"
                /\ r[2] = a \div 60
                /\ r[4] = a % 60
                /\ r[2] * 60 + r[4] = a
                /\ 0 <= r[4] /\ r[4] < 60

\* the Day view printed for date d: the persisted one, or an empty Day
ViewedDay(d) ==
    IF d \in DOMAIN PersistedTs.days THEN PersistedTs.days[d] ELSE EmptyDay(d)

(***************************************************************************)
(* C28: fmt_mins(m, expand) has the sign "-" exactly when m < 0; when      *)
(* |m| < 60 and expand is false it is the short form, |m| minutes and no   *)
(* hour part; otherwise it has one hour part, hours = |m| div 60 and       *)
(* remainder = |m| mod 60, so hours * 60 + remainder = |m| and             *)
(* 0 <= remainder < 60.  This holds for every m from -130 to 130 and for   *)
(* the worked time, lunch and flex of every Day view prints.               *)
(***************************************************************************)
C28_FmtMins ==
    /\ \A m \in FmtMins, expand \in BOOLEAN : FmtAsClaimed(fmt_mins(m, expand), m, expand)
    /\ (out.op = "view" /\ out.raised = None) =>
          \A i \in 1..Len(DayLines(out.printed)) :
              LET ln == DayLines(out.printed)[i]
                  day == ViewedDay(ln[2])
              IN  /\ FmtAsClaimed(ln[3], Day_worked_time(day), TRUE)
                  /\ FmtAsClaimed(ln[4], Day_lunch(day), FALSE)
                  /\ FmtAsClaimed(ln[5], day.flex_minutes, FALSE)

\* a view printed Tuesday the 9th with flex "-2min" and Thursday the 11th,
\* six hours worked, with "6h 0min" and flex "-2h 0min"
C28_Witness ==
    /\ out.op = "view"
    /\ out.raised = None
    /\ \E i, j \in 1..Len(DayLines(out.printed)) :
          /\ DayLines(out.printed)[i][2] = 9
          /\ DayLines(out.printed)[i][5] = <<"-", 2, "min">>
          /\ DayLines(out.printed)[j][2] = 11
          /\ DayLines(out.printed)[j][3] = <<"", 6, "h ", 0, "min">>
          /\ DayLines(out.printed)[j][5] = <<"-", 2, "h ", 0, "min">>

(***************************************************************************)
(* C29: the worked_time of a block is 0 unless the block has both a start  *)
(* and a stop, and is then stop - start in minutes, less the block's       *)
(* lunch; the worked_time of a Day is the sum over its blocks, so a block  *)
(* that is not stopped adds 0 even when the day's lunch is on it.          *)
(***************************************************************************)
C29_WorkedTime ==
    /\ \A i \in 1..Len(PersistedBlocks) :
          LET wb == PersistedBlocks[i]
          IN  WorkBlock_worked_time(wb) =
                  IF wb.start = None \/ wb.stop = None
                  THEN 0
                  ELSE (Val(wb.stop) - Val(wb.start)) - wb.lunch
    /\ Day_worked_time(PersistedToday) = CompletedMinutes(PersistedBlocks)
    /\ (Len(PersistedBlocks) > 0 /\ ~stopped(PersistedBlocks[Len(PersistedBlocks)])) =>
          Day_worked_time(PersistedToday) =
              CompletedMinutes(SubSeq(PersistedBlocks, 1, Len(PersistedBlocks) - 1))

\* a block from 08:00 to 16:30, then a running block that carries the
\* lunch of 30 minutes: the Day's worked_time is the 510 of the first
C29_Witness ==
    /\ Len(PersistedBlocks) = 2
    /\ PersistedBlocks[1].start = Some(480)
    /\ PersistedBlocks[1].stop = Some(990)
    /\ PersistedBlocks[1].lunch = 0
    /\ is_ongoing(PersistedBlocks[2])
    /\ PersistedBlocks[2].lunch = 30
    /\ WorkBlock_worked_time(PersistedBlocks[2]) = 0
    /\ Day_worked_time(PersistedToday) = 510

(***************************************************************************)
(* C30: the worked_time of a block is never negative: on every day start,  *)
(* stop, switch and lunch reach, a block whose stop is not after its start *)
(* or whose lunch is as long as the interval or longer has worked_time 0.  *)
(***************************************************************************)
C30_WorkedTimeNeverNegative ==
    \A i \in 1..Len(PersistedBlocks) :
        LET wb == PersistedBlocks[i]
        IN  /\ WorkBlock_worked_time(wb) >= 0
            /\ (started(wb) /\ stopped(wb)
                    /\ (Val(wb.stop) <= Val(wb.start)
                            \/ wb.lunch >= Val(wb.stop) - Val(wb.start))) =>
                   WorkBlock_worked_time(wb) = 0

\* a block started at 16:30 and stopped at 08:00 is persisted with a
\* worked_time of -510, and the flex of the day counts it
C30_NegativeWorkedTime ==
    /\ out.op = "stop"
    /\ Len(PersistedBlocks) = 1
    /\ PersistedBlocks[1].start = Some(990)
    /\ PersistedBlocks[1].stop = Some(480)
    /\ WorkBlock_worked_time(PersistedBlocks[1]) = 0 - 510
    /\ PersistedToday.flex_minutes = 0 - 510 - 480 + PersistedToday.time_off_minutes

\* a block started and stopped at 08:00 that then gets a lunch of 20
\* minutes has a worked_time of -20
C30_LunchLongerThanBlock ==
    /\ out.op = "lunch"
    /\ Len(PersistedBlocks) = 1
    /\ PersistedBlocks[1].start = Some(480)
    /\ PersistedBlocks[1].stop = Some(480)
    /\ PersistedBlocks[1].lunch = 20
    /\ WorkBlock_worked_time(PersistedBlocks[1]) = 0 - 20

\* what the code guarantees instead: with both ends set the worked_time
\* is stop - start - lunch, of either sign
C30_WorkedTimeIsSignedDifference ==
    \A i \in 1..Len(PersistedBlocks) :
        LET wb == PersistedBlocks[i]
        IN  (started(wb) /\ stopped(wb)) =>
                WorkBlock_worked_time(wb) = Val(wb.stop) - Val(wb.start) - wb.lunch

(***************************************************************************)
(* The projects file and the commands that change it: create_project,      *)
(* delete_project and rename_project, next to start and stop, which ask    *)
(* for a project.                                                          *)
(***************************************************************************)
MAX_PROJECT_NAME_LENGTH == 50

\* most projects the file is grown to
MaxProjects == 2

\* the names given to create_project and rename_project: none, two names
\* and a name of 51 characters
ProjectNames ==
    {"", "a", "b", "aaaaaaaaaaaaaaaaaaaaaaaaaaaaaaaaaaaaaaaaaaaaaaaaaaa"}

\* the ids given to delete_project and rename_project
GivenIds == 0..3

\* a test that takes only the projects that are not deleted
Mut_name_exists(projs, name) ==
    \E i \in 1..Len(projs) : projs[i].name = name /\ ~projs[i].deleted

\* any(p.name == name for p in projects)
name_exists(projs, name) == \E i \in 1..Len(projs) : projs[i].name = name

\* max((p.id for p in projects), default=0) + 1
new_id(projs) ==
    IF Len(projs) = 0
    THEN 1
    ELSE (CHOOSE m \in {projs[i].id : i \in 1..Len(projs)} :
              \A i \in 1..Len(projs) : projs[i].id <= m) + 1

\* the index of the first project with the id, 0 when there is none
\* (get_project_by_id raises ValueError)
first_with_id(projs, project_id) ==
    IF \E i \in 1..Len(projs) : projs[i].id = project_id
    THEN CHOOSE i \in 1..Len(projs) :
             /\ projs[i].id = project_id
             /\ \A j \in 1..(i - 1) : projs[j].id # project_id
    ELSE 0

create_project(name) ==
    IF name = ""
    THEN /\ out' = Out("create_project", <<>>,
                       Some(<<"ValueError", "Project name cannot be empty">>))
         /\ UNCHANGED <<files, projects, cfg, today, procs>>
    ELSE IF Len(name) > MAX_PROJECT_NAME_LENGTH
    THEN /\ out' = Out("create_project", <<>>,
                       Some(<<"ValueError", "Project name cannot be longer than">>))
         /\ UNCHANGED <<files, projects, cfg, today, procs>>
    ELSE IF name_exists(projects, name)
    THEN /\ out' = Out("create_project", <<>>,
                       Some(<<"ValueError", "Project with name already exists">>))
         /\ UNCHANGED <<files, projects, cfg, today, procs>>
    ELSE /\ projects' = Append(projects, Project(new_id(projects), name, FALSE))
         /\ out' = Out("create_project", <<>>, None)
         /\ UNCHANGED <<files, cfg, today, procs>>

delete_project(project_id) ==
    IF first_with_id(projects, project_id) = 0
    THEN /\ out' = Out("delete_project", <<>>,
                       Some(<<"ValueError", "No project with id">>))
         /\ UNCHANGED <<files, projects, cfg, today, procs>>
    ELSE /\ projects' = [projects EXCEPT ![first_with_id(projects, project_id)].deleted = TRUE]
         /\ out' = Out("delete_project", <<>>, None)
         /\ UNCHANGED <<files, cfg, today, procs>>

\* rename_project("{project_id} {new_name}"); no name given is new_name = ""
rename_project(project_id, new_name) ==
    IF new_name = ""
    THEN /\ out' = Out("rename_project", <<>>,
                       Some(<<"ValueError", "Project name cannot be empty">>))
         /\ UNCHANGED <<files, projects, cfg, today, procs>>
    ELSE IF Len(new_name) > MAX_PROJECT_NAME_LENGTH
    THEN /\ out' = Out("rename_project", <<>>,
                       Some(<<"ValueError", "Project name cannot be longer than">>))
         /\ UNCHANGED <<files, projects, cfg, today, procs>>
    ELSE IF name_exists(projects, new_name)
    THEN /\ out' = Out("rename_project", <<>>,
                       Some(<<"ValueError", "Project with name already exists">>))
         /\ UNCHANGED <<files, projects, cfg, today, procs>>
    ELSE IF first_with_id(projects, project_id) = 0
    THEN /\ out' = Out("rename_project", <<>>,
                       Some(<<"ValueError", "No project with id">>))
         /\ UNCHANGED <<files, projects, cfg, today, procs>>
    ELSE /\ projects' = [projects EXCEPT ![first_with_id(projects, project_id)].name = new_name]
         /\ out' = Out("rename_project", <<>>, None)
         /\ UNCHANGED <<files, cfg, today, procs>>

\* the model grows the projects file to MaxProjects projects at most
BoundedProjects == Len(projects) <= MaxProjects

\* most work blocks the day is grown to next to the projects
MaxAdminBlocks == 1

BoundedAdmin == Len(PersistedBlocks) <= MaxAdminBlocks

InitAdmin ==
    /\ files = [k \in Keys |-> NoFile]
    /\ projects = <<>>
    /\ cfg = [workhours_one_day |-> DEFAULT_WORK_HOURS, datafile |-> <<1, 1>>]
    /\ today \in Dates
    /\ out = Out("", <<>>, None)
    /\ procs = <<>>

NextAdmin ==
    \/ \E name \in ProjectNames : create_project(name) /\ BoundedProjects'
    \/ \E id \in GivenIds : delete_project(id)
    \/ \E id \in GivenIds, name \in ProjectNames : rename_project(id, name)
    \/ \E t \in Times : start(t) /\ BoundedAdmin'
    \/ \E t \in Times : stop(t, None)

SpecAdmin == InitAdmin /\ [][NextAdmin]_vars

\* the projects that are not deleted: those the prompt lists
Selectable == {i \in 1..Len(projects) : ~projects[i].deleted}

(***************************************************************************)
(* C31: start asks for a project exactly when a project that is not        *)
(* deleted exists; with no such project (none created, or every one        *)
(* deleted) start is not held at a prompt and the block it starts has no   *)
(* project.                                                                *)
(***************************************************************************)
C31_StartPromptsOnlyForSelectableProjects ==
    [][\A t \in Times :
          (~LastOngoing /\ Selectable = {} /\ start(t)) =>
              /\ out'.raised = None
              /\ PersistedBlocks'[Len(PersistedBlocks')].start = Some(t)
              /\ PersistedBlocks'[Len(PersistedBlocks')].project_id = None]_vars

\* what the code does: it asks exactly when projects.json holds a project,
\* deleted or not
C31_StartPromptsWhenAnyProjectExists ==
    [][\A t \in Times :
          (~LastOngoing /\ start(t)) =>
              IF Len(projects) = 0
              THEN /\ out'.raised = None
                   /\ PersistedBlocks'[Len(PersistedBlocks')].project_id = None
              ELSE \/ out'.raised = Some(<<"KeyboardInterrupt", "project">>)
                   \/ PersistedBlocks'[Len(PersistedBlocks')].project_id
                          \in prompt_for_project(projects, None)]_vars

\* the only project is deleted, and start was held at the prompt and gave
\* the block the deleted project
C31_PromptWithEveryProjectDeleted ==
    /\ Len(projects) = 1
    /\ projects[1].deleted
    /\ out.op = "start"
    /\ out.raised = None
    /\ LastOngoing
    /\ PersistedBlocks[Len(PersistedBlocks)].project_id = Some(1)

\* ids grow along the list, none is 0, and no two projects share a name
ProjectsWellFormed ==
    /\ \A i \in 1..Len(projects) : projects[i].id >= 1
    /\ \A i, j \in 1..Len(projects) :
          i < j => /\ projects[i].id < projects[j].id
                   /\ projects[i].name # projects[j].name

(***************************************************************************)
(* C32: after any sequence of create_project, delete_project and           *)
(* rename_project the project ids are pairwise distinct, strictly          *)
(* increasing in the order of creation, never 0 and never used again       *)
(* (delete only sets the flag, the project stays in the list), and the     *)
(* names are pairwise distinct; a create or a rename to a name that is     *)
(* taken and a delete or rename of an unknown id raise and leave the list  *)
(* as it was.                                                              *)
(***************************************************************************)
C32_ProjectIdsAndNamesUnique ==
    /\ []ProjectsWellFormed
    /\ [][/\ \A name \in ProjectNames :
                create_project(name) =>
                    IF name_exists(projects, name)
                    THEN out'.raised # None /\ projects' = projects
                    ELSE out'.raised = None =>
                             /\ Len(projects') = Len(projects) + 1
                             /\ SubSeq(projects', 1, Len(projects)) = projects
                             /\ projects'[Len(projects')].name = name
                             /\ ~projects'[Len(projects')].deleted
                             /\ \A i \in 1..Len(projects) :
                                    projects[i].id < projects'[Len(projects')].id
          /\ \A id \in GivenIds :
                delete_project(id) =>
                    IF \E i \in 1..Len(projects) : projects[i].id = id
                    THEN /\ Len(projects') = Len(projects)
                         /\ \A i \in 1..Len(projects) :
                                /\ projects'[i].id = projects[i].id
                                /\ projects'[i].name = projects[i].name
                                /\ projects'[i].deleted =
                                       (projects[i].deleted \/ projects[i].id = id)
                    ELSE out'.raised # None /\ projects' = projects
          /\ \A id \in GivenIds, name \in ProjectNames :
                rename_project(id, name) =>
                    IF name_exists(projects, name)
                           \/ ~(\E i \in 1..Len(projects) : projects[i].id = id)
                    THEN out'.raised # None /\ projects' = projects
                    ELSE out'.raised = None =>
                             /\ Len(projects') = Len(projects)
                             /\ \A i \in 1..Len(projects) :
                                    /\ projects'[i].id = projects[i].id
                                    /\ projects'[i].deleted = projects[i].deleted
                                    /\ projects'[i].name =
                                           (IF projects[i].id = id THEN name
                                            ELSE projects[i].name)]_vars

\* project 1, named a, is deleted; project 2 is b; a create_project with
\* the name of the deleted project was refused
C32_Witness ==
    /\ Len(projects) = 2
    /\ projects[1] = Project(1, "a", TRUE)
    /\ projects[2] = Project(2, "b", FALSE)
    /\ out.op = "create_project"
    /\ out.raised = Some(<<"ValueError", "Project with name already exists">>)

(***************************************************************************)
(* C33: after any sequence of start, stop, switch, lunch, timeoff and      *)
(* comment commands the day has at most one ongoing block (started and not *)
(* stopped) and it is the last one: every block before the last has both   *)
(* its start and its stop, and no block has a stop without a start.        *)
(***************************************************************************)
C33_OnlyLastBlockOngoing ==
    /\ \A i \in 1..(Len(PersistedBlocks) - 1) :
           started(PersistedBlocks[i]) /\ stopped(PersistedBlocks[i])
    /\ \A i \in 1..Len(PersistedBlocks) :
           stopped(PersistedBlocks[i]) => started(PersistedBlocks[i])
    /\ Cardinality({i \in 1..Len(PersistedBlocks) : is_ongoing(PersistedBlocks[i])}) <= 1
    /\ \A i \in 1..Len(PersistedBlocks) :
           is_ongoing(PersistedBlocks[i]) => i = Len(PersistedBlocks)

\* a start after a stopped block: two blocks, the first closed, the last ongoing
C33_Witness ==
    /\ out.op = "start"
    /\ Len(PersistedBlocks) = 2
    /\ stopped(PersistedBlocks[1])
    /\ is_ongoing(PersistedBlocks[2])

(***************************************************************************)
(* C34: work_blocks is append-only.  No command removes or reorders blocks *)
(* (the number of blocks never goes down), and once a block is stopped no  *)
(* later start, stop, switch, timeoff or comment changes its start, its    *)
(* stop or its comment.                                                    *)
(***************************************************************************)
C34_WorkBlocksAppendOnly ==
    [][/\ Len(PersistedBlocks') >= Len(PersistedBlocks)
       /\ \A i \in 1..Len(PersistedBlocks) :
              stopped(PersistedBlocks[i]) =>
                  /\ PersistedBlocks'[i].start = PersistedBlocks[i].start
                  /\ PersistedBlocks'[i].stop = PersistedBlocks[i].stop
                  /\ PersistedBlocks'[i].comment = PersistedBlocks[i].comment]_vars

\* the first block was stopped with a comment; a block was started after it
\* and given an empty comment, and the first block still has its own
C34_Witness ==
    /\ out.op = "comment"
    /\ Len(PersistedBlocks) = 2
    /\ PersistedBlocks[1].start = Some(480)
    /\ PersistedBlocks[1].stop = Some(990)
    /\ PersistedBlocks[1].comment = <<"a">>
    /\ is_ongoing(PersistedBlocks[2])
    /\ PersistedBlocks[2].comment = <<>>

(***************************************************************************)
(* C35: the blocks of a day never overlap and none is inverted: in every   *)
(* state reached through start, stop and switch each stopped block has     *)
(* stop >= start, and each block's start is >= the stop of the block       *)
(* before it.                                                              *)
(***************************************************************************)
C35_BlocksOrderedAndNotInverted ==
    /\ \A i \in 1..Len(PersistedBlocks) :
           stopped(PersistedBlocks[i]) /\ started(PersistedBlocks[i]) =>
               Val(PersistedBlocks[i].stop) >= Val(PersistedBlocks[i].start)
    /\ \A i \in 2..Len(PersistedBlocks) :
           started(PersistedBlocks[i]) /\ stopped(PersistedBlocks[i - 1]) =>
               Val(PersistedBlocks[i].start) >= Val(PersistedBlocks[i - 1].stop)

\* what the code keeps: a switch closes the block at a time that is not
\* before its start and opens the next block at that same time
C35_SwitchKeepsOrder ==
    [][\A t \in Times :
          (LastOngoing /\ switch(t) /\ out'.raised = None) =>
              LET n == Len(PersistedBlocks)
              IN  /\ Len(PersistedBlocks') = n + 1
                  /\ Val(PersistedBlocks'[n].stop) >= Val(PersistedBlocks'[n].start)
                  /\ PersistedBlocks'[n + 1].start = PersistedBlocks'[n].stop]_vars

\* a block stopped before it was started
C35_InvertedBlock ==
    /\ out.op = "stop"
    /\ Len(PersistedBlocks) = 1
    /\ PersistedBlocks[1].start = Some(990)
    /\ PersistedBlocks[1].stop = Some(480)

\* a block started before the stop of the block before it
C35_OverlappingBlocks ==
    /\ out.op = "start"
    /\ Len(PersistedBlocks) = 2
    /\ PersistedBlocks[1].start = Some(480)
    /\ PersistedBlocks[1].stop = Some(990)
    /\ PersistedBlocks[2].start = Some(480)

(***************************************************************************)
(* The commands of the journal run on a timesheet file that already holds  *)
(* Days of other dates: the Days of test_view_week, with or without        *)
(* today's Day.                                                            *)
(***************************************************************************)
\* most work blocks today's Day is grown to
MaxDayBlocks == 2

\* Monday the 8th, which the file has no Day for, and Tuesday the 9th,
\* whose Day holds one stopped block with 30 minutes of lunch
DayDates == {8, 9}

\* the minutes given to lunch: none, and the 25 of test_worked_time_with_lunch
DayLunches == {0, 25}

\* the minutes given to timeoff: a refused value and half a day
DayTimeOffs == {-1, 240}

\* what the timesheet file holds when the program is run
DaySheets ==
    { Some(model_dump_json([Timesheet EXCEPT !.days = TestWeekDays,
                                             !.target_hours = 160])),
      Some(model_dump_json(
          [Timesheet EXCEPT !.days =
              (7 :> [TestWeekDays[7] EXCEPT !.time_off_minutes = 60,
                                            !.flex_minutes = 15])
                  @@ (10 :> TestWeekDays[10])])) }

BoundedDays == Len(PersistedBlocks) <= MaxDayBlocks

InitDays ==
    /\ today \in DayDates
    /\ cfg = [workhours_one_day |-> DEFAULT_WORK_HOURS, datafile |-> datafile_of(today)]
    /\ projects = <<>>
    /\ out = Out("", <<>>, None)
    /\ procs = <<>>
    /\ files \in [Keys -> DaySheets]

NextDays ==
    \/ \E t \in Times : start(t) /\ BoundedDays'
    \/ \E t \in Times : stop(t, None)
    \/ \E t \in Times : switch(t) /\ BoundedDays'
    \/ \E m \in DayLunches : lunch(m)
    \/ \E m \in DayTimeOffs : set_time_off(m)
    \/ \E c \in Comments : set_comment(c)

SpecDays == InitDays /\ [][NextDays]_vars

\* the dates other than today the persisted Timesheet holds a Day for
OtherDates == DOMAIN PersistedTs.days \ {today}

(***************************************************************************)
(* C36: start, stop, switch, lunch, timeoff and comment touch today's Day  *)
(* only: every Day stored under another date (its blocks, lunch, time off  *)
(* and flex) and the target_hours of the timesheet are the same after the  *)
(* command as before it, whether the command is accepted or refused.       *)
(***************************************************************************)
C36_OnlyTodayTouched ==
    [][/\ OtherDates' = OtherDates
       /\ \A d \in OtherDates : PersistedTs'.days[d] = PersistedTs.days[d]
       /\ PersistedTs'.target_hours = PersistedTs.target_hours]_vars

\* on Tuesday the 9th a second block was started, and the file still holds
\* Sunday and Wednesday as test_view_week wrote them and 160 target hours
C36_Witness ==
    /\ today = 9
    /\ out.op = "start"
    /\ Len(PersistedBlocks) = 2
    /\ OtherDates = {7, 10}
    /\ PersistedTs.days[7] = TestWeekDays[7]
    /\ PersistedTs.days[10] = TestWeekDays[10]
    /\ PersistedTs.target_hours = 160

\* the blocks of a Day that carry a lunch
LunchBlocks(day) == {i \in 1..Len(day.work_blocks) : day.work_blocks[i].lunch # 0}

\* the lunch of a Day, counted block by block
LunchTotal(day) == SumSeq([i \in 1..Len(day.work_blocks) |-> day.work_blocks[i].lunch])

(***************************************************************************)
(* C37: in every reachable state at most one block of a day carries a      *)
(* nonzero lunch.  An accepted lunch finds the day without lunch and puts   *)
(* its minutes on the block that is last when it is called, so that the    *)
(* day's lunch, the sum over the blocks, is the minutes of that call; a    *)
(* refused lunch and every other command leave the lunch of every block    *)
(* as it was, and a block that is added has no lunch.                      *)
(***************************************************************************)
C37_SingleLunchBlock ==
    /\ [](\A d \in DOMAIN PersistedTs.days :
              Cardinality(LunchBlocks(PersistedTs.days[d])) <= 1)
    /\ [][/\ \A m \in DayLunches :
                lunch(m) =>
                    LET n == Len(PersistedBlocks)
                    IN  IF n > 0 /\ started(PersistedBlocks[n])
                              /\ LunchTotal(PersistedToday) = 0
                        THEN /\ Len(PersistedBlocks') = n
                             /\ PersistedBlocks'[n].lunch = m
                             /\ LunchTotal(PersistedToday') = m
                             /\ LunchBlocks(PersistedToday') \subseteq {n}
                        ELSE PersistedTs' = PersistedTs
          /\ out'.op # "lunch" =>
                /\ \A i \in 1..Len(PersistedBlocks) :
                       PersistedBlocks'[i].lunch = PersistedBlocks[i].lunch
                /\ LunchTotal(PersistedToday') = LunchTotal(PersistedToday)]_vars

\* 25 minutes of lunch were put on the first block while it was the last
\* one; a lunch called during the second block was refused
C37_Witness ==
    /\ today = 8
    /\ out.op = "lunch"
    /\ out.printed = <<>>
    /\ Len(PersistedBlocks) = 2
    /\ PersistedBlocks[1].lunch = 25
    /\ is_ongoing(PersistedBlocks[2])
    /\ PersistedBlocks[2].lunch = 0
    /\ LunchTotal(PersistedToday) = 25

\* the ids the prompt lists: those of the projects that are not deleted
SelectableIds == {Some(projects[i].id) : i \in Selectable}

(***************************************************************************)
(* C38: the project prompt returns the no-project sentinel (None), the     *)
(* default it was given, or the id of a project it lists as selectable; it *)
(* never returns the id of a deleted project, so a start or a stop never   *)
(* gives a block a project that was deleted before.                        *)
(***************************************************************************)
C38_PromptReturnsSelectableOnly ==
    [][/\ \A t \in Times :
              (~LastOngoing /\ start(t) /\ out'.raised = None) =>
                  PersistedBlocks'[Len(PersistedBlocks')].project_id
                      \in {None} \cup SelectableIds
       /\ \A t \in Times :
              (LastOngoing /\ stop(t, None) /\ out'.raised = None) =>
                  PersistedBlocks'[Len(PersistedBlocks')].project_id
                      \in {None, PersistedBlocks[Len(PersistedBlocks)].project_id}
                              \cup SelectableIds]_vars

\* what the code does: the prompt takes the id of any project in
\* projects.json, deleted or not
C38_PromptTakesAnyStoredId ==
    [][/\ \A t \in Times :
              (~LastOngoing /\ start(t) /\ out'.raised = None) =>
                  PersistedBlocks'[Len(PersistedBlocks')].project_id
                      \in {None} \cup {Some(projects[i].id) : i \in 1..Len(projects)}
       /\ \A t \in Times :
              (LastOngoing /\ stop(t, None) /\ out'.raised = None) =>
                  PersistedBlocks'[Len(PersistedBlocks')].project_id
                      \in {None, PersistedBlocks[Len(PersistedBlocks)].project_id}
                              \cup {Some(projects[i].id) : i \in 1..Len(projects)}]_vars

\* project 1 is deleted and project 2 is not; the block that was started
\* without a project is stopped with project 1
C38_StoppedWithDeletedProject ==
    /\ Len(projects) = 2
    /\ projects[1].deleted
    /\ ~projects[2].deleted
    /\ out.op = "stop"
    /\ out.raised = None
    /\ LastStopped
    /\ PersistedBlocks[Len(PersistedBlocks)].project_id = Some(projects[1].id)

(***************************************************************************)
(* The project summary: one table for each week of the range and, for the  *)
(* month, the totals of the projects.                                      *)
(***************************************************************************)
\* date.isocalendar()[1], the ISO week of a date
iso_week(d) ==
    LET w == (day_of_year(d) - isoweekday(d) + 10) \div 7
        weeks_in(y) == IF isoweekday(365 * (y - 1) + 1) = 4 THEN 53 ELSE 52
    IN  IF w = 0 THEN weeks_in(year_of(d) - 1)
        ELSE IF w > weeks_in(year_of(d)) THEN 1
        ELSE w

\* the Mondays from current to end_date
RECURSIVE mondays_from(_, _)
mondays_from(current, end_date) ==
    IF current <= end_date
    THEN <<current>> \o mondays_from(current + 7, end_date)
    ELSE <<>>

\* get_week_start_dates: start_date and every Monday after it up to end_date
get_week_start_dates(start_date, end_date) ==
    LET days_until_monday == (8 - isoweekday(start_date)) % 7
        first_monday == IF days_until_monday = 0
                        THEN start_date + 7
                        ELSE start_date + days_until_monday
    IN  <<start_date>> \o mondays_from(first_monday, end_date)

\* the loop of get_remaining_days_in_week_in_same_month
RECURSIVE remaining_days_from(_, _)
remaining_days_from(current_date, start_date) ==
    IF month_of(current_date) # month_of(start_date)
    THEN <<>>
    ELSE IF isoweekday(current_date) = 7
    THEN <<current_date>>
    ELSE <<current_date>> \o remaining_days_from(current_date + 1, start_date)

get_remaining_days_in_week_in_same_month(start_date) ==
    remaining_days_from(start_date, start_date)

\* the key a block is counted under: its project_id, 0 when it has none
bucket(block) ==
    IF block.project_id = None \/ Val(block.project_id) = 0
    THEN 0
    ELSE Val(block.project_id)

\* the worked time of the blocks of a Day that are counted under id
day_project_time(day, id) ==
    SumSeq([j \in 1..Len(day.work_blocks) |->
               IF bucket(day.work_blocks[j]) = id
               THEN WorkBlock_worked_time(day.work_blocks[j])
               ELSE 0])

\* project_times: for every key that a block of the days is counted under,
\* the minutes on each date (a date without such a block reads as 0)
project_times_of(days) ==
    [id \in UNION {{bucket(days[i].work_blocks[j]) : j \in 1..Len(days[i].work_blocks)} :
                      i \in 1..Len(days)} |->
        [d \in {days[i].this_date : i \in 1..Len(days)} |->
            SumSeq([i \in 1..Len(days) |->
                       IF days[i].this_date = d THEN day_project_time(days[i], id) ELSE 0])]]

\* sum(times[current] for times in project_times.values())
RECURSIVE sum_times(_, _, _)
sum_times(ids, project_times, current) ==
    IF ids = {}
    THEN 0
    ELSE LET id == CHOOSE x \in ids : TRUE
         IN  project_times[id][current] + sum_times(ids \ {id}, project_times, current)

\* fmt_mins(mins) if mins else "": the empty string is the empty tuple
summary_cell(mins) == IF mins # 0 THEN fmt_mins(mins, FALSE) ELSE <<>>

\* the rows of the table: one for each project of the list that has a key
\* in project_times, in the order of the list
RECURSIVE summary_rows(_, _, _)
summary_rows(projs, project_times, days_to_print) ==
    IF projs = <<>>
    THEN <<>>
    ELSE (IF Head(projs).id \in DOMAIN project_times
          THEN << [name |-> Head(projs).name,
                   cells |-> [k \in 1..Len(days_to_print) |->
                                 summary_cell(project_times[Head(projs).id][days_to_print[k]])],
                   total |-> fmt_mins(
                                 SumSeq([k \in 1..Len(days_to_print) |->
                                            project_times[Head(projs).id][days_to_print[k]]]),
                                 FALSE)] >>
          ELSE <<>>)
         \o summary_rows(Tail(projs), project_times, days_to_print)

\* _print_project_summary_week with the list of projects after its
\* add_project(Project(id=0, name="no project")): the table of one week
print_project_summary_week(start_date, ts, projs) ==
    LET days_to_print == get_remaining_days_in_week_in_same_month(start_date)
        days == get_days(ts, start_date, days_to_print[Len(days_to_print)]).days
        project_times == project_times_of(days)
        day_total(current) == sum_times(DOMAIN project_times, project_times, current)
    IN  [week |-> iso_week(start_date),
         columns |-> days_to_print,
         rows |-> summary_rows(projs, project_times, days_to_print),
         totals |-> [k \in 1..Len(days_to_print) |-> summary_cell(day_total(days_to_print[k]))],
         total |-> fmt_mins(SumSeq([k \in 1..Len(days_to_print) |->
                                       day_total(days_to_print[k])]), FALSE)]

\* the names of the model in the order Python sorts them
name_order == <<"a", "b", "no project">>

\* sorted([p for p in projects if not p.deleted], key=lambda p: p.name)
sorted_not_deleted(projs) ==
    LET with_name(k) == SelectSeq(projs, LAMBDA p : ~p.deleted /\ p.name = name_order[k])
    IN  with_name(1) \o with_name(2) \o with_name(3)

\* the lines under "Month total:"
RECURSIVE month_total_lines(_, _)
month_total_lines(projs, project_month_totals) ==
    IF projs = <<>>
    THEN <<>>
    ELSE (IF Head(projs).id \in DOMAIN project_month_totals
                /\ project_month_totals[Head(projs).id] > 0
          THEN << [name |-> Head(projs).name,
                   total |-> fmt_mins(project_month_totals[Head(projs).id], FALSE)] >>
          ELSE <<>>)
         \o month_total_lines(Tail(projs), project_month_totals)

\* project_summary(view_span): every call of _print_project_summary_week
\* appends project 0 to the one list of projects the summary loaded
project_summary(view_span) ==
    LET range == get_range(view_span, today)
        l == load_timesheet(files, cfg.datafile)
        weeks == get_week_start_dates(range[1], range[2])
        no_project == Project(0, "no project", FALSE)
        projects_at(k) == projects \o [i \in 1..k |-> no_project]
        tables == [k \in 1..Len(weeks) |->
                      print_project_summary_week(weeks[k], l.ts, projects_at(k))]
        month_days == get_days(l.ts, range[1], range[2]).days
        month_times == project_times_of(month_days)
        project_month_totals ==
            [id \in DOMAIN month_times |->
                SumSeq([i \in 1..Len(month_days) |-> month_times[id][month_days[i].this_date]])]
    IN  /\ files' = l.files
        /\ out' = Out("project_summary",
                      [tables |-> tables,
                       month_total |->
                           IF view_span = "MONTH"
                           THEN month_total_lines(sorted_not_deleted(projects_at(Len(weeks))),
                                                  project_month_totals)
                           ELSE <<>>],
                      None)
        /\ UNCHANGED <<projects, cfg, today, procs>>

\* a stopped block of a project
ProjectBlock(start_, stop_, project_id_) ==
    [WorkBlock(Some(start_), project_id_) EXCEPT !.stop = Some(stop_)]

\* Monday the 8th and Tuesday the 9th worked for the two projects and, for
\* a part of the Monday, for no project
SecondWeekDays ==
    (8 :> ViewDay(8, <<ProjectBlock(480, 720, Some(1)), ProjectBlock(720, 990, None)>>))
        @@ (9 :> ViewDay(9, <<ProjectBlock(480, 990, Some(2))>>))

\* Wednesday the 3rd worked for no project, Tuesday the 16th for project 1
FirstAndThirdWeekDays ==
    (3 :> ViewDay(3, <<ProjectBlock(480, 600, None)>>))
        @@ (16 :> ViewDay(16, <<ProjectBlock(480, 540, Some(1))>>))

\* what the timesheet file holds when the program is run
SummarySheets ==
    { Some(model_dump_json([Timesheet EXCEPT !.days = SecondWeekDays])),
      Some(model_dump_json([Timesheet EXCEPT !.days = SecondWeekDays @@ FirstAndThirdWeekDays])) }

\* Wednesday the 10th and Wednesday the 17th
SummaryDates == {10, 17}

\* projects.json: project 1 named b and project 2 named a, deleted or not
SummaryProjects ==
    { <<Project(1, "b", FALSE), Project(2, "a", FALSE)>>,
      <<Project(1, "b", FALSE), Project(2, "a", TRUE)>> }

InitSummary ==
    /\ today \in SummaryDates
    /\ cfg = [workhours_one_day |-> DEFAULT_WORK_HOURS, datafile |-> datafile_of(today)]
    /\ projects \in SummaryProjects
    /\ out = Out("", <<>>, None)
    /\ procs = <<>>
    /\ files \in [Keys -> SummarySheets]

NextSummary ==
    \/ \E view_span \in ViewSpans : project_summary(view_span)
    \/ start(480) /\ BoundedAdmin'
    \/ stop(990, None)

SpecSummary == InitSummary /\ [][NextSummary]_vars

\* the minutes a cell of the summary shows
MinsOf(cell) ==
    IF cell = <<>>
    THEN 0
    ELSE LET sign == IF cell[1] = "-" THEN -1 ELSE 1
         IN  IF Len(cell) = 3 THEN sign * cell[2] ELSE sign * (cell[2] * 60 + cell[4])

\* the name of the row a block is counted in
BucketName(block) ==
    IF bucket(block) = 0
    THEN "no project"
    ELSE projects[first_with_id(projects, bucket(block))].name

\* the rows of a table that carry the name
RowsNamed(t, name) == {i \in 1..Len(t.rows) : t.rows[i].name = name}

\* every block of the days of the table is counted in a row of the table
BucketsListed(t) ==
    \A k \in 1..Len(t.columns) :
        t.columns[k] \in DOMAIN PersistedTs.days =>
            \A j \in 1..Len(PersistedTs.days[t.columns[k]].work_blocks) :
                RowsNamed(t, BucketName(PersistedTs.days[t.columns[k]].work_blocks[j])) # {}

\* the Total row is the sum of the rows above it, day by day and overall
TotalsAreRowSums(t) ==
    /\ \A k \in 1..Len(t.columns) :
           MinsOf(t.totals[k]) =
               SumSeq([i \in 1..Len(t.rows) |-> MinsOf(t.rows[i].cells[k])])
    /\ MinsOf(t.total) = SumSeq([i \in 1..Len(t.rows) |-> MinsOf(t.rows[i].total)])

\* the Total row is the worked time of the days of the table
TotalsAreWorkedTime(t) ==
    \A k \in 1..Len(t.columns) :
        MinsOf(t.totals[k]) =
            IF t.columns[k] \in DOMAIN PersistedTs.days
            THEN Day_worked_time(PersistedTs.days[t.columns[k]])
            ELSE 0

(***************************************************************************)
(* C39: in a project summary every bucket is listed exactly once in each   *)
(* table: for each week of the range, and for the month total, each        *)
(* project with recorded time and the "no project" bucket of the blocks    *)
(* without project appear in one row only, and the totals per day are the  *)
(* sums of the rows.                                                       *)
(***************************************************************************)
C39_BucketsListedOncePerTable ==
    out.op = "project_summary" =>
        /\ \A k \in 1..Len(out.printed.tables) :
               LET t == out.printed.tables[k]
               IN  /\ BucketsListed(t)
                   /\ \A i \in 1..Len(t.rows) : RowsNamed(t, t.rows[i].name) = {i}
                   /\ TotalsAreRowSums(t)
        /\ \A i, j \in 1..Len(out.printed.month_total) :
               i # j => out.printed.month_total[i].name # out.printed.month_total[j].name

\* what the code does: the k-th table of a summary lists each project once
\* and the "no project" bucket k times, and the month total lists it once
\* for each table; the Total row counts every bucket once
C39_NoProjectListedOncePerCall ==
    out.op = "project_summary" =>
        /\ \A k \in 1..Len(out.printed.tables) :
               LET t == out.printed.tables[k]
               IN  /\ BucketsListed(t)
                   /\ \A i \in 1..Len(t.rows) :
                          Cardinality(RowsNamed(t, t.rows[i].name)) =
                              IF t.rows[i].name = "no project" THEN k ELSE 1
                   /\ TotalsAreWorkedTime(t)
                   /\ k = 1 => TotalsAreRowSums(t)
        /\ \A i \in 1..Len(out.printed.month_total) :
               Cardinality({j \in 1..Len(out.printed.month_total) :
                               out.printed.month_total[j].name =
                                   out.printed.month_total[i].name}) =
                   IF out.printed.month_total[i].name = "no project"
                   THEN Len(out.printed.tables)
                   ELSE 1

\* the summary of the month: the table of the second week has two rows for
\* "no project" with 4h 30min each on the Monday, and a Total of 8h 30min
\* for that day
C39_NoProjectRowTwice ==
    /\ out.op = "project_summary"
    /\ Len(out.printed.tables) = 5
    /\ Cardinality(RowsNamed(out.printed.tables[2], "no project")) = 2
    /\ \A i \in RowsNamed(out.printed.tables[2], "no project") :
           out.printed.tables[2].rows[i].cells[1] = <<"", 4, "h ", 30, "min">>
    /\ out.printed.tables[2].totals[1] = <<"", 8, "h ", 30, "min">>

(***************************************************************************)
(* Two invocations of the program on one data directory.  A command is     *)
(* load_timesheet(), the changes to the Timesheet in memory, and           *)
(* save_timesheet(); nothing locks the file in between, so the load and    *)
(* the save of one invocation are two steps that the steps of the other    *)
(* invocation can fall between.  There are no projects, so no prompt.      *)
(***************************************************************************)
\* the invocations
Procs == {1, 2}

\* the commands the invocations are given
RaceCmds == {<<"stop", 990>>, <<"timeoff", 240>>, <<"timeoff", 480>>,
             <<"lunch", 25>>, <<"lunch", 30>>}

\* an invocation that has not loaded the timesheet yet
NotLoaded == [pc |-> "start", cmd |-> <<>>, ts |-> None]

\* stop from its load to its save: the Timesheet it saves (None when it
\* returns before the save) and what it prints
stop_in_memory(ts, stop_time, comment) ==
    LET ts0 == Timesheet_today(ts, today)
        day0 == last_work_block(ts0.days[today])
        n == Len(day0.work_blocks)
        day1 == recalc_flex([day0 EXCEPT !.work_blocks[n] =
                                stop_block(@, stop_time, comment, None)],
                            cfg.workhours_one_day)
    IN  IF stop_not_started(Last(day0))
        THEN [ts |-> None,
              printed |-> << <<"Could not stop workblock, is your last workblock started?">> >>]
        ELSE IF stop_already_stopped(Last(day0))
        THEN [ts |-> None, printed |-> <<>>]
        ELSE [ts |-> Some([ts0 EXCEPT !.days[today] = day1]),
              printed |-> << <<"Stopping at", stop_time>>,
                             <<IF day1.flex_minutes >= 0 THEN "Flex for today"
                               ELSE "Flex for today is negative",
                               abs(day1.flex_minutes) \div 60,
                               abs(day1.flex_minutes) % 60>> >>]

\* lunch from its load to its save
lunch_in_memory(ts, lunch_mins) ==
    LET ts0 == Timesheet_today(ts, today)
        day0 == ts0.days[today]
        n == Len(day0.work_blocks)
    IN  IF lunch_not_started(day0.work_blocks)
        THEN [ts |-> None,
              printed |-> << <<"Could not find today in timesheet, did you start the day?">> >>]
        ELSE IF lunch_already_set(day0)
        THEN [ts |-> None, printed |-> <<>>]
        ELSE [ts |-> Some([ts0 EXCEPT !.days[today] =
                              recalc_flex([day0 EXCEPT !.work_blocks[n].lunch = lunch_mins],
                                          cfg.workhours_one_day)]),
              printed |-> print_estimated_endtime_for_today(day0.work_blocks, lunch_mins, 0)
                              \o << <<"Added mins as lunch", lunch_mins>> >>]

\* set_time_off from its load to its save, for minutes it does not refuse
set_time_off_in_memory(ts, time_off_mins) ==
    LET ts0 == Timesheet_today(ts, today)
    IN  [ts |-> Some([ts0 EXCEPT !.days[today] =
                         recalc_flex([ts0.days[today] EXCEPT
                                         !.time_off_minutes = time_off_mins],
                                     cfg.workhours_one_day)]),
         printed |-> << <<"Setting timeoff to", time_off_mins>> >>]

in_memory(cmd, ts) ==
    CASE cmd[1] = "stop" -> stop_in_memory(ts, cmd[2], None)
      [] cmd[1] = "lunch" -> lunch_in_memory(ts, cmd[2])
      [] cmd[1] = "timeoff" -> set_time_off_in_memory(ts, cmd[2])

\* an invocation that reads the file again when it saves
Mut_copy_in_memory(p) == load_timesheet(files, cfg.datafile).ts

\* ts, the local variable of the command: the Timesheet the invocation loaded
copy_in_memory(p) == Val(procs[p].ts)

\* ts = load_timesheet()
invoke_load(p, cmd) ==
    /\ procs[p].pc = "start"
    /\ LET l == load_timesheet(files, cfg.datafile)
       IN  /\ files' = l.files
           /\ procs' = [procs EXCEPT ![p] = [pc |-> "loaded", cmd |-> cmd, ts |-> Some(l.ts)]]
    /\ UNCHANGED <<projects, cfg, today, out>>

\* the rest of the command: the changes in memory and save_timesheet(ts);
\* the invocation exits with what it saved
invoke_save(p) ==
    /\ procs[p].pc = "loaded"
    /\ LET done == in_memory(procs[p].cmd, copy_in_memory(p))
       IN  /\ files' = IF done.ts = None
                       THEN files
                       ELSE save_timesheet(files, Val(done.ts), cfg.datafile)
           /\ procs' = [procs EXCEPT ![p] = [pc |-> "exited", cmd |-> @.cmd, ts |-> done.ts]]
           /\ out' = Out(procs[p].cmd[1], done.printed, None)
    /\ UNCHANGED <<projects, cfg, today>>

\* the timesheet file when the invocations begin: a block that runs since
\* 08:00, or a block that ran from 08:00 to 12:00
RaceSheets ==
    { Some(model_dump_json(
          [Timesheet EXCEPT !.days = (d :> [Day(d) EXCEPT !.work_blocks =
                                               <<WorkBlock(Some(480), None)>>])])) : d \in Dates }
    \cup
    { Some(model_dump_json(
          [Timesheet EXCEPT !.days = (d :> ViewDay(d, <<Block(480, 720, 0)>>))])) : d \in Dates }

InitRace ==
    /\ today \in Dates
    /\ cfg = [workhours_one_day |-> DEFAULT_WORK_HOURS, datafile |-> <<1, 1>>]
    /\ projects = <<>>
    /\ out = Out("", <<>>, None)
    /\ files \in [Keys -> {s \in RaceSheets : today \in DOMAIN Val(s).days}]
    /\ procs = [p \in Procs |-> NotLoaded]

NextRace ==
    \/ \E p \in Procs, cmd \in RaceCmds : invoke_load(p, cmd)
    \/ \E p \in Procs : invoke_save(p)

SpecRace == InitRace /\ [][NextRace]_vars

\* today's Day of a Timesheet in memory
TodayOf(ts) == Timesheet_today(ts, today).days[today]

(***************************************************************************)
(* C40: a command loads the whole file, changes its copy in memory and     *)
(* writes the whole file, with no lock.  The file after a save is the      *)
(* copy of the invocation that saved, made from what that invocation       *)
(* loaded: what another invocation saved in between is not in it (its      *)
(* update is lost).  When the invocation loaded what the file holds at     *)
(* its save, as it does when the commands run one after another, the save  *)
(* keeps everything the command does not set.                              *)
(***************************************************************************)
C40_LastWriterWins ==
    [][\A p \in Procs :
          invoke_save(p) =>
              LET mine == Val(procs[p].ts)
                  cmd == procs[p].cmd
                  done == in_memory(cmd, mine)
              IN  IF done.ts = None
                  THEN files' = files
                  ELSE /\ PersistedTs' = Val(done.ts)
                       /\ cmd[1] = "timeoff" =>
                              /\ PersistedToday'.time_off_minutes = cmd[2]
                              /\ PersistedBlocks' = TodayOf(mine).work_blocks
                       /\ cmd[1] = "stop" =>
                              /\ PersistedBlocks'[Len(PersistedBlocks')].stop = Some(cmd[2])
                              /\ PersistedToday'.time_off_minutes = TodayOf(mine).time_off_minutes
                              /\ LunchTotal(PersistedToday') = LunchTotal(TodayOf(mine))
                       /\ cmd[1] = "lunch" =>
                              /\ LunchTotal(PersistedToday') = cmd[2]
                              /\ PersistedToday'.time_off_minutes = TodayOf(mine).time_off_minutes
                              /\ PersistedBlocks'[Len(PersistedBlocks')].stop =
                                     TodayOf(mine).work_blocks[Len(PersistedBlocks')].stop
                       /\ mine = PersistedTs =>
                              /\ cmd[1] # "timeoff" =>
                                     PersistedToday'.time_off_minutes =
                                         PersistedToday.time_off_minutes
                              /\ cmd[1] # "stop" =>
                                     PersistedBlocks'[Len(PersistedBlocks')].stop =
                                         PersistedBlocks[Len(PersistedBlocks)].stop
                              /\ cmd[1] # "lunch" =>
                                     LunchTotal(PersistedToday') = LunchTotal(PersistedToday)]_vars

\* both invocations loaded the running block; the first saved 240 minutes
\* of time off, then the second saved its stop: the file holds the stopped
\* block and no time off
C40_Witness ==
    /\ procs[1] = [pc |-> "exited", cmd |-> <<"timeoff", 240>>, ts |-> procs[1].ts]
    /\ procs[1].ts # None
    /\ TodayOf(Val(procs[1].ts)).time_off_minutes = 240
    /\ procs[2].pc = "exited"
    /\ procs[2].cmd = <<"stop", 990>>
    /\ procs[2].ts # None
    /\ LastStopped
    /\ PersistedBlocks[Len(PersistedBlocks)].stop = Some(990)
    /\ PersistedToday.time_off_minutes = 0

====
